---- MODULE Spec2Model ----
(***************************************************************************)
(* The Action Execution Gateway of src/server.mjs: the /api/execute        *)
(* handler (READ_FILE, RUN_CMD, RUN_SCRIPT, WRITE_FILE), the policy        *)
(* predicates, backupFile, the marker directory of asynchronous actions,   *)
(* pollCompletedActions and the /api/events connection handler.            *)
(*                                                                         *)
(* Text is modelled as a sequence of one-character strings, so that        *)
(* startsWith, replace and the regular expressions of BLOCKED_COMMANDS are *)
(* computed character by character as the JavaScript does.                 *)
(***************************************************************************)
EXTENDS Integers, Sequences, FiniteSets, Bags, TLC

(***************************************************************************)
(* Regular expressions (the subset BLOCKED_COMMANDS uses).                 *)
(***************************************************************************)
LowerChars ==
  <<"a", "b", "c", "d", "e", "f", "g", "h", "i", "j", "k", "l", "m",
    "n", "o", "p", "q", "r", "s", "t", "u", "v", "w", "x", "y", "z">>

UpperChars ==
  <<"A", "B", "C", "D", "E", "F", "G", "H", "I", "J", "K", "L", "M",
    "N", "O", "P", "Q", "R", "S", "T", "U", "V", "W", "X", "Y", "Z">>

Digits == {"0", "1", "2", "3", "4", "5", "6", "7", "8", "9"}

Letters == {LowerChars[i] : i \in 1..26} \cup {UpperChars[i] : i \in 1..26}

\* Case folding of the /i flag (ASCII letters).
Fold(c) ==
  IF \E i \in 1..26 : UpperChars[i] = c
    THEN LowerChars[CHOOSE i \in 1..26 : UpperChars[i] = c]
    ELSE c

\* Regex nodes.  "set": one character of s (or, negated, one outside s),
\* compared after folding when ci; "seq", "alt": over the sequence a;
\* "star": zero or more of r; "wb": the \b assertion.
Class(S) == [ci |-> FALSE, k |-> "set", neg |-> FALSE, s |-> S]
ClassI(S) == [ci |-> TRUE, k |-> "set", neg |-> FALSE, s |-> {Fold(c) : c \in S}]
Cat(a) == [a |-> a, k |-> "seq"]
Or(a) == [a |-> a, k |-> "alt"]
Star(r) == [k |-> "star", r |-> r]
Plus(r) == Cat(<<r, Star(r)>>)
Opt(r) == Or(<<r, Cat(<<>>)>>)
Lit(w) == Cat([i \in 1..Len(w) |-> Class({w[i]})])
LitI(w) == Cat([i \in 1..Len(w) |-> ClassI({w[i]})])
\* . matches any character but a line terminator
Dot == [ci |-> FALSE, k |-> "set", neg |-> TRUE, s |-> {"\n", "\r"}]
\* \s
WS == Class({" ", "\t", "\n", "\r", "\f"})
\* \b
WB == [k |-> "wb"]

IsWordChar(s, i) ==
  /\ i >= 1
  /\ i <= Len(s)
  /\ s[i] \in Letters \cup Digits \cup {"_"}

\* Ends(r, s, i): the positions j such that r matches s[i..j-1].
RECURSIVE Ends(_, _, _)
RECURSIVE SeqEnds(_, _, _, _)
RECURSIVE StarEnds(_, _, _)

SeqEnds(a, n, s, P) ==
  IF n > Len(a) THEN P
  ELSE SeqEnds(a, n + 1, s, UNION {Ends(a[n], s, p) : p \in P})

StarEnds(r, s, P) ==
  LET N == UNION {Ends(r, s, p) : p \in P} \ P
  IN  IF N = {} THEN P ELSE StarEnds(r, s, P \cup N)

Ends(r, s, i) ==
  CASE r.k = "set" ->
         IF i <= Len(s) /\ (((IF r.ci THEN Fold(s[i]) ELSE s[i]) \in r.s) # r.neg)
           THEN {i + 1} ELSE {}
    [] r.k = "seq" -> SeqEnds(r.a, 1, s, {i})
    [] r.k = "alt" -> UNION {Ends(r.a[n], s, i) : n \in 1..Len(r.a)}
    [] r.k = "star" -> StarEnds(r.r, s, {i})
    [] r.k = "wb" -> IF IsWordChar(s, i - 1) # IsWordChar(s, i) THEN {i} ELSE {}

\* RegExp.prototype.test: a match starting anywhere.
Test(r, s) == \E i \in 1..(Len(s) + 1) : Ends(r, s, i) # {}

BLOCKED_COMMANDS ==
  <<
    \* /rm\s+(-[a-zA-Z]*f|-[a-zA-Z]*r|--force|--recursive).*\//i
    Cat(<<LitI(<<"r", "m">>), Plus(WS), Or(<<Cat(<<LitI(<<"-">>), Star(ClassI(Letters)),
      LitI(<<"f">>)>>), Cat(<<LitI(<<"-">>), Star(ClassI(Letters)), LitI(<<"r">>)>>),
      LitI(<<"-", "-", "f", "o", "r", "c", "e">>), LitI(<<"-", "-", "r", "e", "c", "u", "r",
      "s", "i", "v", "e">>)>>), Star(Dot), LitI(<<"/">>)>>),
    \* /rm\s+-rf\s/i
    Cat(<<LitI(<<"r", "m">>), Plus(WS), LitI(<<"-", "r", "f">>), WS>>),
    \* /mkfs/i
    LitI(<<"m", "k", "f", "s">>),
    \* /dd\s+if=/i
    Cat(<<LitI(<<"d", "d">>), Plus(WS), LitI(<<"i", "f", "=">>)>>),
    \* /chmod\s+(-R\s+)?777\s+\//i
    Cat(<<LitI(<<"c", "h", "m", "o", "d">>), Plus(WS), Opt(Cat(<<LitI(<<"-", "R">>),
      Plus(WS)>>)), LitI(<<"7", "7", "7">>), Plus(WS), LitI(<<"/">>)>>),
    \* /chown\s+-R\s+.*\s+\//i
    Cat(<<LitI(<<"c", "h", "o", "w", "n">>), Plus(WS), LitI(<<"-", "R">>), Plus(WS), Star(Dot),
      Plus(WS), LitI(<<"/">>)>>),
    \* />\s*\/dev\/sd/i
    Cat(<<LitI(<<">">>), Star(WS), LitI(<<"/", "d", "e", "v", "/", "s", "d">>)>>),
    \* /:(){ :\|:& };:/
    Cat(<<Lit(<<":">>), Cat(<<>>), Lit(<<"{", " ", ":", "|", ":", "&", " ", "}", ";", ":">>)>>),
    \* /shutdown/i
    LitI(<<"s", "h", "u", "t", "d", "o", "w", "n">>),
    \* /reboot/i
    LitI(<<"r", "e", "b", "o", "o", "t">>),
    \* /init\s+[06]/i
    Cat(<<LitI(<<"i", "n", "i", "t">>), Plus(WS), ClassI({"0", "6"})>>),
    \* /systemctl\s+(poweroff|halt|reboot)/i
    Cat(<<LitI(<<"s", "y", "s", "t", "e", "m", "c", "t", "l">>), Plus(WS), Or(<<LitI(<<"p",
      "o", "w", "e", "r", "o", "f", "f">>), LitI(<<"h", "a", "l", "t">>), LitI(<<"r", "e", "b",
      "o", "o", "t">>)>>)>>),
    \* /wipefs/i
    LitI(<<"w", "i", "p", "e", "f", "s">>),
    \* /fdisk/i
    LitI(<<"f", "d", "i", "s", "k">>),
    \* /parted/i
    LitI(<<"p", "a", "r", "t", "e", "d">>),
    \* /\bformat\b.*\/(dev|disk)/i
    Cat(<<WB, LitI(<<"f", "o", "r", "m", "a", "t">>), WB, Star(Dot), LitI(<<"/">>),
      Or(<<LitI(<<"d", "e", "v">>), LitI(<<"d", "i", "s", "k">>)>>)>>),
    \* /curl.*\|\s*(bash|sh|zsh)/i
    Cat(<<LitI(<<"c", "u", "r", "l">>), Star(Dot), LitI(<<"|">>), Star(WS), Or(<<LitI(<<"b",
      "a", "s", "h">>), LitI(<<"s", "h">>), LitI(<<"z", "s", "h">>)>>)>>),
    \* /wget.*\|\s*(bash|sh|zsh)/i
    Cat(<<LitI(<<"w", "g", "e", "t">>), Star(Dot), LitI(<<"|">>), Star(WS), Or(<<LitI(<<"b",
      "a", "s", "h">>), LitI(<<"s", "h">>), LitI(<<"z", "s", "h">>)>>)>>),
    \* /python.*-c.*import\s+os.*system/i
    Cat(<<LitI(<<"p", "y", "t", "h", "o", "n">>), Star(Dot), LitI(<<"-", "c">>), Star(Dot),
      LitI(<<"i", "m", "p", "o", "r", "t">>), Plus(WS), LitI(<<"o", "s">>), Star(Dot),
      LitI(<<"s", "y", "s", "t", "e", "m">>)>>),
    \* /iptables\s+-F/i
    Cat(<<LitI(<<"i", "p", "t", "a", "b", "l", "e", "s">>), Plus(WS), LitI(<<"-", "F">>)>>),
    \* /ufw\s+disable/i
    Cat(<<LitI(<<"u", "f", "w">>), Plus(WS), LitI(<<"d", "i", "s", "a", "b", "l", "e">>)>>),
    \* /passwd\s+root/i
    Cat(<<LitI(<<"p", "a", "s", "s", "w", "d">>), Plus(WS), LitI(<<"r", "o", "o", "t">>)>>),
    \* /userdel/i
    LitI(<<"u", "s", "e", "r", "d", "e", "l">>),
    \* /groupdel/i
    LitI(<<"g", "r", "o", "u", "p", "d", "e", "l">>),
    \* /mv\s+\/etc/i
    Cat(<<LitI(<<"m", "v">>), Plus(WS), LitI(<<"/", "e", "t", "c">>)>>),
    \* /rm\s+\/etc/i
    Cat(<<LitI(<<"r", "m">>), Plus(WS), LitI(<<"/", "e", "t", "c">>)>>),
    \* /truncate.*\/etc/i
    Cat(<<LitI(<<"t", "r", "u", "n", "c", "a", "t", "e">>), Star(Dot), LitI(<<"/", "e", "t",
      "c">>)>>),
    \* /echo\s+.*>\s*\/etc\/(passwd|shadow|sudoers|fstab)/i
    Cat(<<LitI(<<"e", "c", "h", "o">>), Plus(WS), Star(Dot), LitI(<<">">>), Star(WS),
      LitI(<<"/", "e", "t", "c", "/">>), Or(<<LitI(<<"p", "a", "s", "s", "w", "d">>),
      LitI(<<"s", "h", "a", "d", "o", "w">>), LitI(<<"s", "u", "d", "o", "e", "r", "s">>),
      LitI(<<"f", "s", "t", "a", "b">>)>>)>>)
  >>


\* BLOCKED_COMMANDS.some(pattern => pattern.test(cmd))
SomePatternMatches(cmd) ==
  \E n \in 1..Len(BLOCKED_COMMANDS) : Test(BLOCKED_COMMANDS[n], cmd)

(***************************************************************************)
(* Text helpers: String.prototype.startsWith, includes, replace(/x/g, w)   *)
(* and the path functions join and dirname.                                *)
(***************************************************************************)
StartsWith(s, p) == Len(p) <= Len(s) /\ SubSeq(s, 1, Len(p)) = p

Includes(s, w) == \E i \in 1..(Len(s) - Len(w) + 1) : SubSeq(s, i, i + Len(w) - 1) = w

\* s.replace(/[C]/g, w): every character of s that is in C replaced by w
RECURSIVE ReplaceAll(_, _, _)
ReplaceAll(s, C, w) ==
  IF s = <<>> THEN <<>>
  ELSE (IF s[1] \in C THEN w ELSE <<s[1]>>) \o ReplaceAll(Tail(s), C, w)

\* the segments of a path between "/" characters (empty segments dropped)
RECURSIVE Segments(_, _)
Segments(s, cur) ==
  IF s = <<>> THEN (IF cur = <<>> THEN <<>> ELSE <<cur>>)
  ELSE IF s[1] = "/"
    THEN (IF cur = <<>> THEN <<>> ELSE <<cur>>) \o Segments(Tail(s), <<>>)
    ELSE Segments(Tail(s), Append(cur, s[1]))

\* path.normalize on the segments of an absolute path: "." is dropped and
\* ".." removes the segment before it
RECURSIVE Resolve(_, _)
Resolve(segs, acc) ==
  IF segs = <<>> THEN acc
  ELSE IF segs[1] = <<".">> THEN Resolve(Tail(segs), acc)
  ELSE IF segs[1] = <<".", ".">>
    THEN Resolve(Tail(segs), IF acc = <<>> THEN acc ELSE SubSeq(acc, 1, Len(acc) - 1))
    ELSE Resolve(Tail(segs), Append(acc, segs[1]))

RECURSIVE Unsplit(_)
Unsplit(segs) ==
  IF segs = <<>> THEN <<>> ELSE <<"/">> \o segs[1] \o Unsplit(Tail(segs))

\* path.join(base, rel) for an absolute base
join(base, rel) ==
  LET r == Unsplit(Resolve(Segments(base \o <<"/">> \o rel, <<>>), <<>>))
  IN  IF r = <<>> THEN <<"/">> ELSE r

\* path.dirname of an absolute path
dirname(p) ==
  LET segs == Segments(p, <<>>)
  IN  IF Len(segs) <= 1 THEN <<"/">> ELSE Unsplit(SubSeq(segs, 1, Len(segs) - 1))

\* the chain a || b of JavaScript on strings: the empty string is falsy
OrElse(a, b) == IF a # "" THEN a ELSE b

(***************************************************************************)
(* Bounds of the model.                                                    *)
(***************************************************************************)
MaxClock == 1
MaxSubmits == 2
MaxCmdSubmits == 1
MaxLoopSubmits == 1
MaxConns == 2
MaxBeats == 1

(***************************************************************************)
(* Program constants and the inputs the requests are drawn from.           *)
(***************************************************************************)
\* process.cwd() and the directory of server.mjs
Cwd == <<"/", "s", "r", "v", "/", "m", "c">>
BACKUP_DIR == join(Cwd, <<".", "m", "i", "d", "d", "l", "e", "c", "l", "a", "w", "-", "b", "a", "c", "k", "u", "p", "s">>)

DEFAULT_READ_PATHS ==
  <<<<"/", "e", "t", "c", "/">>,
    <<"/", "v", "a", "r", "/", "l", "o", "g", "/">>,
    <<"/", "v", "a", "r", "/", "l", "i", "b", "/">>,
    <<"/", "t", "m", "p", "/">>,
    <<"/", "h", "o", "m", "e", "/">>,
    <<"/", "o", "p", "t", "/">>,
    <<"/", "u", "s", "r", "/", "l", "o", "c", "a", "l", "/", "e", "t", "c", "/">>,
    <<"/", "p", "r", "o", "c", "/", "c", "p", "u", "i", "n", "f", "o">>,
    <<"/", "p", "r", "o", "c", "/", "m", "e", "m", "i", "n", "f", "o">>,
    <<"/", "p", "r", "o", "c", "/", "l", "o", "a", "d", "a", "v", "g">>,
    <<"/", "p", "r", "o", "c", "/", "v", "e", "r", "s", "i", "o", "n">>,
    <<"/", "p", "r", "o", "c", "/", "u", "p", "t", "i", "m", "e">>,
    <<"/", "p", "r", "o", "c", "/", "n", "e", "t", "/">>>>

DEFAULT_WRITE_PATHS == <<<<"/", "t", "m", "p", "/">>>>

OPENCLAW_DIR == <<"/", "o", "p", "t", "/", "o", "p", "e", "n", "c", "l", "a", "w">>

CmdEcho == <<"e", "c", "h", "o", " ", "h", "e", "l", "l", "o">>
CmdRmRf == <<"r", "m", " ", "-", "r", "f", " ", "/">>
CmdAgent == <<"o", "p", "e", "n", "c", "l", "a", "w", " ", "a", "g", "e", "n", "t", " ", "-", "-", "m", "e", "s", "s", "a", "g", "e", " ", "h", "i">>
CmdAgentReboot == <<"o", "p", "e", "n", "c", "l", "a", "w", " ", "a", "g", "e", "n", "t", " ", ";", " ", "r", "e", "b", "o", "o", "t">>
CmdLong == [i \in 1..201 |-> "a"]
\* the shell fork bomb
CmdForkBomb == <<":", "(", ")", "{", " ", ":", "|", ":", "&", " ", "}", ";", ":">>
Commands == {CmdEcho, CmdRmRf, CmdAgent, CmdAgentReboot, CmdLong, CmdForkBomb}

\* the commands the classification of RUN_CMD is checked on: one for each
\* substring of the long-running test, one of 200 and one of 201 characters,
\* and a short one
ClassifiedCommands ==
  {CmdEcho, CmdAgent, CmdLong, [i \in 1..200 |-> "a"],
   <<"o", "p", "e", "n", "c", "l", "a", "w", " ", "-", "-", "m", "e", "s", "s", "a", "g", "e", " ", "h", "i">>,
   <<"o", "p", "e", "n", "c", "l", "a", "w", " ", "-", "-", "t", "o", " ", "b", "o", "b">>}

PathA__B == <<"/", "t", "m", "p", "/", "a", "_", "_", "b">>
PathAB == <<"/", "t", "m", "p", "/", "a", "/", "b">>
PathPasswd == <<"/", "e", "t", "c", "/", "p", "a", "s", "s", "w", "d">>
PathSecret == <<"/", "r", "o", "o", "t", "/", "s", "e", "c", "r", "e", "t">>
PathNoFile == <<"/", "r", "o", "o", "t", "/", "n", "o", "f", "i", "l", "e">>
PathTmpNone == <<"/", "t", "m", "p", "/", "n", "o", "n", "e">>
PathNotes == <<"n", "o", "t", "e", "s", ".", "t", "x", "t">>
PathScript == <<"/", "t", "m", "p", "/", "s", ".", "s", "h">>
\* a path under /tmp/ by its text that names /root/secret
PathTraversal == <<"/", "t", "m", "p", "/", ".", ".", "/", "r", "o", "o", "t", "/", "s", "e", "c", "r", "e", "t">>
PathDenied == <<"/", "r", "o", "o", "t", "/", "n", "e", "w", "/", "f">>

TextOld == <<"o", "l", "d">>
TextAbc == <<"a", "b", "c">>
TextXyz == <<"x", "y", "z">>
TextRoot == <<"r", "o", "o", "t">>
ArgsRmRf == <<";", " ", "r", "m", " ", "-", "r", "f", " ", "/">>


\* a request field that is absent from the body
Undefined == <<"undefined">>

\* a target that is a number, not a string
NumberTarget == <<"number">>

\* typeof v === 'string', on the values the requests of the model carry
IsString(v) == v \notin {Undefined, NumberTarget}

\* target.split('.').pop().toLowerCase()
RECURSIVE AfterLastDot(_, _)
AfterLastDot(s, cur) ==
  IF s = <<>> THEN cur
  ELSE IF s[1] = "." THEN AfterLastDot(Tail(s), <<>>)
  ELSE AfterLastDot(Tail(s), Append(cur, Fold(s[1])))

\* the command line RUN_SCRIPT composes
ScriptShell(target) ==
  LET ext == AfterLastDot(target, <<>>)
      quoted == <<"\"">> \o target \o <<"\"">>
  IN  IF ext = <<"p", "s", "1">>
        THEN <<"p", "o", "w", "e", "r", "s", "h", "e", "l", "l", " ", "-", "E", "x", "e", "c", "u", "t", "i", "o", "n", "P", "o", "l", "i", "c", "y", " ", "B", "y", "p", "a", "s", "s", " ", "-", "F", "i", "l", "e", " ">> \o quoted
      ELSE IF ext \in {<<"b", "a", "t">>, <<"c", "m", "d">>}
        THEN <<"c", "m", "d", " ", "/", "c", " ">> \o quoted
      ELSE <<"b", "a", "s", "h", " ">> \o quoted

\* content ? `${shell} ${content}` : shell
ScriptCommand(target, content) ==
  IF content # Undefined /\ content # <<>>
    THEN ScriptShell(target) \o <<" ">> \o content
    ELSE ScriptShell(target)

\* isCommandBlocked(cmd).  The verdicts on the command lines the requests of
\* the model can carry are computed once.
KnownCommandLines ==
  Commands \cup ClassifiedCommands \cup {ScriptCommand(target, content) :
                  target \in {PathScript, PathSecret}, content \in {Undefined, ArgsRmRf}}

BlockedCommandLines == [cmd \in KnownCommandLines |-> SomePatternMatches(cmd)]

isCommandBlocked(cmd) ==
  IF cmd \in KnownCommandLines THEN BlockedCommandLines[cmd] ELSE SomePatternMatches(cmd)


(***************************************************************************)
(* State.                                                                  *)
(*   now               the clock, in milliseconds (Date.now())             *)
(*   SAFE_READ_PATHS, SAFE_WRITE_PATHS   the live prefix lists             *)
(*   files, dirs       the file system: content of each regular file, and  *)
(*                     the directories                                     *)
(*   fsCalls           the file-system calls the last execute request made *)
(*   pendingActions    the Map actionId -> action                          *)
(*   children          the child processes spawned by async RUN_CMD, in    *)
(*                     spawn order, each with the state of the writeFile   *)
(*                     calls of its completion callback (cb) and of its    *)
(*                     'error' handler (eh)                                *)
(*   markers           the files of ACTIONS_DIR: <<actionId, ext>> -> text *)
(*   clientConnections the keys of the Map of live SSE responses           *)
(*   heartbeats        the connections whose heartbeat interval is set     *)
(*   broken            the connections on which res.write throws           *)
(*   received          per connection, the bag of action-complete events   *)
(*                     written to it                                       *)
(*   beats             per connection, the heartbeat events written to it  *)
(*   nconn             the number of connections accepted so far           *)
(*   nreq, lastReq, response   the execute requests handled so far, the    *)
(*                     last one and the body it was answered with          *)
(*   liveAtSubmit      history: for each child, clientConnections at the   *)
(*                     time its action was submitted                       *)
(*   lastEnv           what copyFileSync and writeFileSync did during the  *)
(*                     last execute request                                *)
(*   executing         the request whose handler is inside execSync, or    *)
(*                     NoRequest                                           *)
(*   lastUpdates, configResponse   the last request to /api/config and its *)
(*                     answer                                              *)
(***************************************************************************)
VARIABLES now, SAFE_READ_PATHS, SAFE_WRITE_PATHS, files, dirs, fsCalls,
          pendingActions, children, markers, clientConnections, heartbeats,
          broken, received, beats, nconn, nreq, lastReq, lastEnv, response,
          liveAtSubmit, executing, lastUpdates, configResponse

policyVars == <<SAFE_READ_PATHS, SAFE_WRITE_PATHS, lastUpdates, configResponse>>
fsVars == <<files, dirs>>
asyncVars == <<pendingActions, children, markers, liveAtSubmit>>
connVars == <<clientConnections, heartbeats, broken, received, beats, nconn>>
reqVars == <<nreq, lastReq, lastEnv, response, fsCalls, executing>>
vars == <<now, policyVars, fsVars, asyncVars, connVars, reqVars>>

Conns == 1..MaxConns

\* the body of a synchronous answer: {success, result}
Reply(success, result) ==
  [actionId |-> <<>>, result |-> result, status |-> "done", success |-> success]

\* {success: true, status: 'running', actionId, message}
Running(actionId) ==
  [actionId |-> actionId, result |-> <<"Command started">>, status |-> "running",
   success |-> TRUE]

NoResponse ==
  [actionId |-> <<>>, result |-> <<>>, status |-> "none", success |-> FALSE]

NoRequest == [content |-> <<>>, target |-> <<>>, type |-> "none"]

\* The body of a request to /api/config, as far as the path lists go:
\* has_read, has_write: the body carries read_paths, write_paths (the field
\* is not undefined); read_paths, write_paths: the value carried.
Updates(has_read, read_paths, has_write, write_paths) ==
  [has_read |-> has_read, has_write |-> has_write, read_paths |-> read_paths,
   write_paths |-> write_paths]

\* The values a body may carry that `if (updates.read_paths)` takes as false:
\* null and ''.  They are written as one-entry lists whose entry is no path,
\* so that they differ from every array of paths; [] is <<>> and is true.
Falsy == {<<<<"null">>>>, <<<<"''">>>>}

(***************************************************************************)
(* Async action queue.                                                     *)
(***************************************************************************)
\* 'act_' + Date.now() + '_' + Math.random().toString(36).slice(2, 8)
generateActionId(t, rnd) == <<"act", t, rnd>>

\* join(__dirname, '.middleclaw-actions'); the server is started in its own
\* directory (install.sh: cd "$SCRIPT_DIR", node server.mjs)
ACTIONS_DIR ==
  join(Cwd, <<".", "m", "i", "d", "d", "l", "e", "c", "l", "a", "w", "-", "a", "c", "t", "i", "o", "n", "s">>)

\* The marker a path names, <<>> if it names none: the file <name>.txt or
\* <name>.err of ACTIONS_DIR is the marker that readdirSync lists and from
\* which file.replace(/\.(txt|err)$/, '') takes the id <name>.  The ids the
\* server generates are kept as generateActionId builds them; a name is
\* kept as its text.
MarkerOf(path) ==
  IF dirname(path) = ACTIONS_DIR /\ Len(path) > Len(ACTIONS_DIR) + 5
    THEN LET name == SubSeq(path, Len(ACTIONS_DIR) + 2, Len(path) - 4)
             ext == SubSeq(path, Len(path) - 3, Len(path))
         IN  IF ext = <<".", "t", "x", "t">> THEN <<name, "txt">>
             ELSE IF ext = <<".", "e", "r", "r">> THEN <<name, "err">>
             ELSE <<>>
    ELSE <<>>

\* join(ACTIONS_DIR, `${actionId}.txt`) and `${actionId}.err`
getActionOutputPath(actionId) == <<actionId, "txt">>
getActionErrorPath(actionId) == <<actionId, "err">>

\* file.replace(/\.(txt|err)$/, '')
ActionIdOf(file) == file[1]

\* The error object exec hands to its callback: null: it is null (exit code
\* 0); code: the exit code, "null" for a kill by signal, or an error name.
NoError == [code |-> "0", message |-> "", null |-> TRUE]
ExitNonZero == [code |-> "1", message |-> "Command failed", null |-> FALSE]
KilledBySignal == [code |-> "null", message |-> "Command failed", null |-> FALSE]
MaxBufferExceeded ==
  [code |-> "ERR_CHILD_PROCESS_STDIO_MAXBUFFER",
   message |-> "stdout maxBuffer length exceeded", null |-> FALSE]
\* the child could not be spawned: 'error' is emitted on the child
SpawnError == [code |-> "EAGAIN", message |-> "spawn /bin/sh EAGAIN", null |-> FALSE]
ExecErrors == {NoError, ExitNonZero, KilledBySignal, MaxBufferExceeded, SpawnError}

\* isError as it would be if only an exit code counted as an error
isErrorExitCodeOnly(error) == ~error.null /\ error.code = "1"

\* const isError = error && error.code !== 0
isError(error) == ~error.null /\ error.code # "0"

\* the marker the completion callback writes: its path and its text
CallbackPath(ch) ==
  IF isError(ch.error) THEN getActionErrorPath(ch.id) ELSE getActionOutputPath(ch.id)

CallbackText(ch) ==
  IF isError(ch.error)
    THEN OrElse(ch.error.message, OrElse(ch.out, "Unknown error"))
    ELSE OrElse(ch.out, "(no output)")

\* the marker a writeFile call h ("cb" or "eh") of child ch writes
WritePath(ch, h) == IF h = "cb" THEN CallbackPath(ch) ELSE getActionErrorPath(ch.id)
WriteText(ch, h) == IF h = "cb" THEN CallbackText(ch) ELSE ch.error.message

\* unlinkSync of the marker files in gone: a writeFile that has the file open
\* keeps writing to the unlinked file, which nobody reads any more: its text
\* is lost
Unlinked(chs, gone) ==
  [i \in DOMAIN chs |->
     [chs[i] EXCEPT
        !.cb = IF @ = "open" /\ WritePath(chs[i], "cb") \in gone THEN "lost" ELSE @,
        !.eh = IF @ = "open" /\ WritePath(chs[i], "eh") \in gone THEN "lost" ELSE @]]

\* the long-running test as it would be with target.length >= 200
LongRunningFrom200(target) ==
  \/ Includes(target, <<"o", "p", "e", "n", "c", "l", "a", "w", " ", "a", "g", "e", "n", "t">>)
  \/ Includes(target, <<"o", "p", "e", "n", "c", "l", "a", "w", " ", "-", "-", "m", "e", "s", "s", "a", "g", "e">>)
  \/ Includes(target, <<"o", "p", "e", "n", "c", "l", "a", "w", " ", "-", "-", "t", "o">>)
  \/ Len(target) >= 200

\* target.includes('openclaw agent') || ... || target.length > 200
LongRunning(target) ==
  \/ Includes(target, <<"o", "p", "e", "n", "c", "l", "a", "w", " ", "a", "g", "e", "n", "t">>)
  \/ Includes(target, <<"o", "p", "e", "n", "c", "l", "a", "w", " ", "-", "-", "m", "e", "s",
                        "s", "a", "g", "e">>)
  \/ Includes(target, <<"o", "p", "e", "n", "c", "l", "a", "w", " ", "-", "-", "t", "o">>)
  \/ Len(target) > 200

\* const isAsyncCommand.  The verdicts on the commands of the model are
\* computed once.
AsyncCommandLines == [cmd \in Commands \cup ClassifiedCommands |-> LongRunning(cmd)]

isAsyncCommand(target) ==
  IF target \in DOMAIN AsyncCommandLines THEN AsyncCommandLines[target] ELSE LongRunning(target)

\* What execSync does with a command: ok with its output, or a throw whose
\* error carries stderr, stdout and message: a non-zero exit, the timeout
\* (ETIMEDOUT) or the output cap maxBuffer (ENOBUFS, with the output up to
\* the cap).
SyncRuns ==
  {[message |-> "", ok |-> TRUE, stderr |-> "", stdout |-> "hello\n"],
   [message |-> "", ok |-> TRUE, stderr |-> "", stdout |-> ""],
   [message |-> "Command failed", ok |-> FALSE, stderr |-> "boom", stdout |-> ""],
   [message |-> "Command failed", ok |-> FALSE, stderr |-> "", stdout |-> "part"],
   [message |-> "spawnSync /bin/sh ETIMEDOUT", ok |-> FALSE, stderr |-> "", stdout |-> ""],
   [message |-> "spawnSync /bin/sh ENOBUFS", ok |-> FALSE, stderr |-> "", stdout |-> "part"]}

\* the answer as it would be if output on stdout counted as success
SyncReplyOutputIsSuccess(run) ==
  IF run.ok \/ run.stdout # ""
    THEN Reply(TRUE, OrElse(run.stdout, "(no output)"))
    ELSE Reply(FALSE, OrElse(run.stderr, OrElse(run.stdout, run.message)))

\* try { execSync(...) ; success } catch (execErr) { failure }
SyncReply(run) ==
  IF run.ok
    THEN Reply(TRUE, OrElse(run.stdout, "(no output)"))
    ELSE Reply(FALSE, OrElse(run.stderr, OrElse(run.stdout, run.message)))

\* RUN_CMD as it would be with the long-running test placed before the
\* blocklist test: a blocked command that looks long-running is started
RunCmdAsyncFirst(target, env) ==
  IF isAsyncCommand(target) THEN
    LET actionId == generateActionId(now, env.rnd)
        action == [startedAt |-> now, target |-> target, type |-> "RUN_CMD"]
    IN  /\ pendingActions' =
             [a \in DOMAIN pendingActions \cup {actionId} |->
                IF a = actionId THEN action ELSE pendingActions[a]]
        /\ children' = Append(children,
             [cb |-> "none", eh |-> "none", error |-> NoError,
              id |-> actionId, out |-> "", state |-> "running"])
        /\ liveAtSubmit' = Append(liveAtSubmit, clientConnections)
        /\ response' = Running(actionId)
        /\ UNCHANGED markers
  ELSE IF isCommandBlocked(target) THEN
    /\ response' = Reply(FALSE, <<"Blocked", target>>)
    /\ UNCHANGED asyncVars
  ELSE
    /\ response' = SyncReply(env.run)
    /\ UNCHANGED asyncVars

\* RUN_CMD as it would be if the async path started the child without
\* registering the action
RunCmdUnregistered(target, env) ==
  IF isCommandBlocked(target) THEN
    /\ response' = Reply(FALSE, <<"Blocked", target>>)
    /\ UNCHANGED asyncVars
  ELSE IF ~isAsyncCommand(target) THEN
    /\ response' = SyncReply(env.run)
    /\ UNCHANGED asyncVars
  ELSE
    /\ children' = Append(children,
         [cb |-> "none", eh |-> "none", error |-> NoError,
          id |-> generateActionId(now, env.rnd), out |-> "", state |-> "running"])
    /\ liveAtSubmit' = Append(liveAtSubmit, clientConnections)
    /\ response' = Running(generateActionId(now, env.rnd))
    /\ UNCHANGED <<pendingActions, markers>>

\* case 'RUN_CMD' of the execute handler.  env.run: what execSync does on
\* the fast path; env.rnd: the random part of the id; env.spawn: "ok", or
\* "throws" when exec throws synchronously.
RunCmd(target, env) ==
  IF isCommandBlocked(target) THEN
    /\ response' = Reply(FALSE, <<"Blocked", target>>)
    /\ UNCHANGED asyncVars
  ELSE IF ~isAsyncCommand(target) THEN
    /\ response' = SyncReply(env.run)
    /\ UNCHANGED asyncVars
  ELSE
    LET actionId == generateActionId(now, env.rnd)
        action == [startedAt |-> now, target |-> target, type |-> "RUN_CMD"]
    IN  /\ pendingActions' =
             [a \in DOMAIN pendingActions \cup {actionId} |->
                IF a = actionId THEN action ELSE pendingActions[a]]
        /\ IF env.spawn = "throws"
             THEN /\ response' = Reply(FALSE, <<"Error", "spawn E2BIG">>)
                  /\ UNCHANGED <<children, liveAtSubmit>>
             ELSE /\ children' = Append(children,
                       [cb |-> "none", eh |-> "none", error |-> NoError,
                        id |-> actionId, out |-> "", state |-> "running"])
                  /\ liveAtSubmit' = Append(liveAtSubmit, clientConnections)
                  /\ response' = Running(actionId)
        /\ UNCHANGED markers

\* The child of children[i] terminates, or fails to spawn: exec calls the
\* completion callback, which starts writeFile; on a spawn failure the
\* 'error' listener of line 1183 runs too and starts a second writeFile.
ChildExit(i, error, out) ==
  /\ i \in DOMAIN children
  /\ children[i].state = "running"
  /\ error = SpawnError => out = ""
  /\ children' = [children EXCEPT ![i] =
       [@ EXCEPT !.state = "exited", !.error = error, !.out = out,
                 !.cb = "queued",
                 !.eh = IF error = SpawnError THEN "queued" ELSE "none"]]
  /\ UNCHANGED <<now, policyVars, fsVars, pendingActions, markers, liveAtSubmit,
                 connVars, reqVars>>

\* writeFile opens the marker (creating or truncating it)
WriteFileOpen(i, h) ==
  /\ i \in DOMAIN children
  /\ children[i][h] = "queued"
  /\ LET path == WritePath(children[i], h)
     IN  markers' = [f \in DOMAIN markers \cup {path} |->
                       IF f = path THEN "" ELSE markers[f]]
  /\ children' = [children EXCEPT ![i][h] = "open"]
  /\ UNCHANGED <<now, policyVars, fsVars, pendingActions, liveAtSubmit, connVars, reqVars>>

\* writeFile writes the text and closes the marker
WriteFileDone(i, h) ==
  /\ i \in DOMAIN children
  /\ children[i][h] = "open"
  /\ markers' = [markers EXCEPT ![WritePath(children[i], h)] = WriteText(children[i], h)]
  /\ children' = [children EXCEPT ![i][h] = "done"]
  /\ UNCHANGED <<now, policyVars, fsVars, pendingActions, liveAtSubmit, connVars, reqVars>>

(***************************************************************************)
(* Notification: the poller and the event stream.                          *)
(***************************************************************************)
Exts == {"txt", "err"}

Event(file, result) ==
  [actionId |-> ActionIdOf(file), result |-> result, success |-> (file[2] = "txt")]

\* the drained files as they would be if the pass did not look the id up in
\* pendingActions
PollDrainedUnregistered(first, unreadable) ==
  {f \in DOMAIN markers :
     /\ f \notin unreadable
     /\ \A g \in DOMAIN markers \ (unreadable \cup {f}) :
          ActionIdOf(g) = ActionIdOf(f) => first[ActionIdOf(f)] = f[2]}

\* The files of one poll pass that reach the notification: in directory
\* order (first[a] is the extension readdirSync lists first for id a), the
\* first file of a registered id that can be read; the later file of the
\* same id finds the registration deleted.
PollDrained(first, unreadable) ==
  {f \in DOMAIN markers :
     /\ ActionIdOf(f) \in DOMAIN pendingActions
     /\ f \notin unreadable
     /\ \A g \in DOMAIN markers \ (unreadable \cup {f}) :
          ActionIdOf(g) = ActionIdOf(f) => first[ActionIdOf(f)] = f[2]}

\* the events written to connection c as they would be if the first failed
\* write ended the loop over the clients (which runs in order of connection)
PollWritesStopsAtFailure(c, D) ==
  IF \E b \in broken \cap clientConnections : b <= c THEN EmptyBag
  ELSE SetToBag({Event(f, markers[f]) : f \in D})

\* the events written to connection c by a pass that drained the files D
PollWrites(c, D) ==
  IF c \in broken THEN EmptyBag
  ELSE SetToBag({Event(f, markers[f]) : f \in D})

\* pollCompletedActions as it would be if it neither unlinked the markers nor
\* deleted the registration
pollCompletedActionsKeeps(first, unreadable) ==
  LET D == PollDrained(first, unreadable)
  IN  /\ received' = [c \in Conns |->
                        IF c \in clientConnections THEN received[c] (+) PollWrites(c, D)
                        ELSE received[c]]
      /\ UNCHANGED <<now, policyVars, fsVars, asyncVars, clientConnections, heartbeats,
                     broken, beats, nconn, reqVars>>

\* pollCompletedActions as it would be if it unlinked only the file it read
pollCompletedActionsUnlinksRead(first, unreadable) ==
  LET D == PollDrained(first, unreadable)
      ids == {ActionIdOf(f) : f \in D}
  IN  /\ markers' = [f \in DOMAIN markers \ D |-> markers[f]]
      /\ children' = Unlinked(children, D)
      /\ pendingActions' = [a \in DOMAIN pendingActions \ ids |-> pendingActions[a]]
      /\ received' = [c \in Conns |->
                        IF c \in clientConnections THEN received[c] (+) PollWrites(c, D)
                        ELSE received[c]]
      /\ UNCHANGED <<now, policyVars, fsVars, liveAtSubmit, clientConnections, heartbeats,
                     broken, beats, nconn, reqVars>>

\* pollCompletedActions
pollCompletedActions(first, unreadable) ==
  LET D == PollDrained(first, unreadable)
      ids == {ActionIdOf(f) : f \in D}
      gone == {f \in DOMAIN markers : ActionIdOf(f) \in ids}
      clients == clientConnections
  IN  /\ markers' = [f \in DOMAIN markers \ gone |-> markers[f]]
      /\ children' = Unlinked(children, gone)
      /\ pendingActions' = [a \in DOMAIN pendingActions \ ids |-> pendingActions[a]]
      /\ received' = [c \in Conns |->
                        IF c \in clients THEN received[c] (+) PollWrites(c, D)
                        ELSE received[c]]
      /\ UNCHANGED <<now, policyVars, fsVars, liveAtSubmit, clientConnections, heartbeats,
                     broken, beats, nconn, reqVars>>

\* the events endpoint as it would be without the catch-up
EventsHandlerNoCatchUp(unreadable) ==
  LET c == nconn + 1
  IN  /\ nconn < MaxConns
      /\ nconn' = c
      /\ clientConnections' = clientConnections \cup {c}
      /\ heartbeats' = heartbeats \cup {c}
      /\ UNCHANGED <<now, policyVars, fsVars, asyncVars, received, broken, beats, reqVars>>

\* the events handler as it would be if the catch-up wrote to every open
\* connection
EventsHandlerBroadcasts(unreadable) ==
  LET c == nconn + 1
      sent == DOMAIN markers \ unreadable
  IN  /\ nconn < MaxConns
      /\ nconn' = c
      /\ clientConnections' = clientConnections \cup {c}
      /\ received' = [d \in DOMAIN received |->
                        IF d \in clientConnections'
                        THEN received[d] (+) SetToBag({Event(f, markers[f]) : f \in sent})
                        ELSE received[d]]
      /\ markers' = [f \in DOMAIN markers \ sent |-> markers[f]]
      /\ children' = Unlinked(children, sent)
      /\ heartbeats' = heartbeats \cup {c}
      /\ UNCHANGED <<now, policyVars, fsVars, pendingActions, liveAtSubmit, broken, beats,
                     reqVars>>

\* app.get('/api/events'): register the connection, catch up, start the
\* heartbeat.  The catch-up sends every marker it can read and unlinks it.
EventsHandler(unreadable) ==
  LET c == nconn + 1
      sent == DOMAIN markers \ unreadable
  IN  /\ nconn < MaxConns
      /\ nconn' = c
      /\ clientConnections' = clientConnections \cup {c}
      /\ received' = [received EXCEPT ![c] =
                        @ (+) SetToBag({Event(f, markers[f]) : f \in sent})]
      /\ markers' = [f \in DOMAIN markers \ sent |-> markers[f]]
      /\ children' = Unlinked(children, sent)
      /\ heartbeats' = heartbeats \cup {c}
      /\ UNCHANGED <<now, policyVars, fsVars, pendingActions, liveAtSubmit, broken, beats,
                     reqVars>>

\* the heartbeat as it would be if a failed write were ignored
HeartbeatIgnoresFailure(c) ==
  /\ c \in heartbeats
  /\ c \notin broken
  /\ beats[c] < MaxBeats
  /\ beats' = [beats EXCEPT ![c] = @ + 1]
  /\ UNCHANGED <<now, policyVars, fsVars, asyncVars, clientConnections, heartbeats, broken,
                 received, nconn, reqVars>>

\* the heartbeat interval of connection c fires
Heartbeat(c) ==
  /\ c \in heartbeats
  /\ IF c \in broken
       THEN /\ heartbeats' = heartbeats \ {c}
            /\ clientConnections' = clientConnections \ {c}
            /\ UNCHANGED beats
       ELSE /\ beats[c] < MaxBeats
            /\ beats' = [beats EXCEPT ![c] = @ + 1]
            /\ UNCHANGED <<heartbeats, clientConnections>>
  /\ UNCHANGED <<now, policyVars, fsVars, asyncVars, broken, received, nconn, reqVars>>

\* the close handler as it would be if it also dropped the registrations
OnCloseForgetsActions(c) ==
  /\ c \in clientConnections \cup heartbeats
  /\ heartbeats' = heartbeats \ {c}
  /\ clientConnections' = clientConnections \ {c}
  /\ broken' = broken \ {c}
  /\ pendingActions' = <<>>
  /\ UNCHANGED <<now, policyVars, fsVars, children, markers, liveAtSubmit, received, beats,
                 nconn, reqVars>>

\* the close handler as it would be without clearInterval(heartbeat)
OnCloseKeepsTimer(c) ==
  /\ c \in clientConnections \cup heartbeats
  /\ clientConnections' = clientConnections \ {c}
  /\ broken' = broken \ {c}
  /\ UNCHANGED <<now, policyVars, fsVars, asyncVars, heartbeats, received, beats, nconn,
                 reqVars>>

\* req.on('close')
OnClose(c) ==
  /\ c \in clientConnections \cup heartbeats
  /\ heartbeats' = heartbeats \ {c}
  /\ clientConnections' = clientConnections \ {c}
  /\ broken' = broken \ {c}
  /\ UNCHANGED <<now, policyVars, fsVars, asyncVars, received, beats, nconn, reqVars>>

\* the socket of connection c fails: from now on res.write throws
SocketBreaks(c) ==
  /\ c \in clientConnections
  /\ c \notin broken
  /\ broken' = broken \cup {c}
  /\ UNCHANGED <<now, policyVars, fsVars, asyncVars, clientConnections, heartbeats,
                 received, beats, nconn, reqVars>>

\* a millisecond passes
Tick ==
  /\ now < MaxClock
  /\ now' = now + 1
  /\ UNCHANGED <<policyVars, fsVars, asyncVars, connVars, reqVars>>

(***************************************************************************)
(* Policy and backups.                                                     *)
(***************************************************************************)
\* SAFE_READ_PATHS.some(p => filepath.startsWith(p))
isPathReadable(filepath) ==
  \E n \in 1..Len(SAFE_READ_PATHS) : StartsWith(filepath, SAFE_READ_PATHS[n])

\* the write check as it would be if it consulted the readable list
isPathWritableByReadList(filepath) ==
  \E n \in 1..Len(SAFE_READ_PATHS) : StartsWith(filepath, SAFE_READ_PATHS[n])

\* SAFE_WRITE_PATHS.some(p => filepath.startsWith(p))
isPathWritable(filepath) ==
  \E n \in 1..Len(SAFE_WRITE_PATHS) : StartsWith(filepath, SAFE_WRITE_PATHS[n])

\* the live lists as they would be if a config update extended them in place
\* instead of replacing them
PostConfigAppends(updates, write) ==
  /\ lastUpdates' = updates
  /\ IF write = "fails"
       THEN /\ configResponse' = Reply(FALSE, <<"Failed to save config">>)
            /\ UNCHANGED <<SAFE_READ_PATHS, SAFE_WRITE_PATHS>>
       ELSE /\ SAFE_READ_PATHS' = IF updates.has_read /\ updates.read_paths \notin Falsy
                                    THEN SAFE_READ_PATHS \o updates.read_paths
                                    ELSE SAFE_READ_PATHS
            /\ SAFE_WRITE_PATHS' = IF updates.has_write /\ updates.write_paths \notin Falsy
                                     THEN SAFE_WRITE_PATHS \o updates.write_paths
                                     ELSE SAFE_WRITE_PATHS
            /\ configResponse' = Reply(TRUE, <<"Config saved. Path changes are active immediately.">>)
  /\ UNCHANGED <<now, fsVars, asyncVars, connVars, reqVars>>

\* the handler as it would be if it loaded the lists before saving the file
PostConfigReloadsFirst(updates, write) ==
  /\ lastUpdates' = updates
  /\ SAFE_READ_PATHS' = IF updates.has_read /\ updates.read_paths \notin Falsy
                          THEN updates.read_paths
                          ELSE SAFE_READ_PATHS
  /\ SAFE_WRITE_PATHS' = IF updates.has_write /\ updates.write_paths \notin Falsy
                           THEN updates.write_paths
                           ELSE SAFE_WRITE_PATHS
  /\ configResponse' =
       IF write = "fails" THEN Reply(FALSE, <<"Failed to save config">>)
       ELSE Reply(TRUE, <<"Config saved. Path changes are active immediately.">>)
  /\ UNCHANGED <<now, fsVars, asyncVars, connVars, reqVars>>

\* app.post('/api/config'), for a body that carries at most the path lists.
\* write is what writeFileSync(CONFIG_PATH, ...) does: "ok" or "fails".  The
\* saved file is read again only by the next config request and the next
\* start of the server; the model keeps the live lists, and lastUpdates
\* holds what the last request put into the file (lines 851-852).
PostConfig(updates, write) ==
  /\ lastUpdates' = updates
  /\ IF write = "fails"
       THEN /\ configResponse' = Reply(FALSE, <<"Failed to save config">>)
            /\ UNCHANGED <<SAFE_READ_PATHS, SAFE_WRITE_PATHS>>
       ELSE /\ SAFE_READ_PATHS' = IF updates.has_read /\ updates.read_paths \notin Falsy
                                    THEN updates.read_paths
                                    ELSE SAFE_READ_PATHS
            /\ SAFE_WRITE_PATHS' = IF updates.has_write /\ updates.write_paths \notin Falsy
                                     THEN updates.write_paths
                                     ELSE SAFE_WRITE_PATHS
            /\ configResponse' = Reply(TRUE, <<"Config saved. Path changes are active immediately.">>)
  /\ UNCHANGED <<now, fsVars, asyncVars, connVars, reqVars>>

\* the file a path names, once the kernel has resolved its "." and "..";
\* a path without "/." and "//" that does not end in "/" names itself
Real(p) ==
  IF \/ \E i \in 1..(Len(p) - 1) :
          /\ p[i] = "/"
          /\ \/ p[i + 1] = "/"
             \/ /\ p[i + 1] = "."
                /\ \/ i + 1 = Len(p)
                   \/ p[i + 2] = "/"
                   \/ p[i + 2] = "." /\ (i + 2 = Len(p) \/ p[i + 3] = "/")
     \/ p = <<>>
     \/ p[Len(p)] = "/"
     \/ p[1] # "/"
    THEN join(<<"/">>, p)
    ELSE p

\* existsSync on the file system <<fl, ds>>
existsSync(fl, ds, p) == Real(p) \in DOMAIN fl \/ Real(p) \in ds

\* the directories mkdirSync(d, {recursive: true}) leaves in place
Ancestors(d) ==
  LET segs == Segments(d, <<>>)
  IN  {Unsplit(SubSeq(segs, 1, n)) : n \in 1..Len(segs)}


\* new Date().toISOString() at clock t (milliseconds after the epoch of the
\* model, t < 1000)
toISOString(t) ==
  <<"2", "0", "2", "6", "-", "0", "1", "-", "0", "1", "T", "0", "0", ":", "0", "0", ":", "0", "0", ".">> \o
  LET digit == <<"0", "1", "2", "3", "4", "5", "6", "7", "8", "9">>
  IN  <<digit[(t \div 100) + 1], digit[((t \div 10) % 10) + 1], digit[(t % 10) + 1], "Z">>

\* filepath.replace(/\//g, '__') + `.${timestamp}.bak`, under BACKUP_DIR
BackupPath(filepath, t) ==
  LET timestamp == ReplaceAll(toISOString(t), {":", "."}, <<"-">>)
      backupName == ReplaceAll(filepath, {"/"}, <<"_", "_">>) \o <<".">> \o timestamp
                      \o <<".", "b", "a", "k">>
  IN  join(BACKUP_DIR, backupName)

\* backupFile as it would be if it took no copy
backupFileNoCopy(fl, ds, filepath, t, copy) ==
  [dirs |-> ds, files |-> fl, path |-> <<>>, threw |-> FALSE]

\* backupFile as it would be if it caught the failure of copyFileSync and
\* returned null
backupFileSwallows(fl, ds, filepath, t, copy) ==
  IF ~existsSync(fl, ds, filepath) \/ copy = "fails" \/ Real(filepath) \notin DOMAIN fl
    THEN [dirs |-> ds, files |-> fl, path |-> <<>>, threw |-> FALSE]
    ELSE [dirs |-> ds \cup Ancestors(BACKUP_DIR),
          files |-> [f \in DOMAIN fl \cup {BackupPath(filepath, t)} |->
                       IF f = BackupPath(filepath, t) THEN fl[Real(filepath)] ELSE fl[f]],
          path |-> BackupPath(filepath, t), threw |-> FALSE]

\* backupFile(filepath) on the file system <<fl, ds>> at clock t.  copy is
\* what copyFileSync does: "ok" or "fails".  The result: threw (an exception
\* left backupFile), path (the backup path, <<>> for null) and the file
\* system it leaves.
backupFile(fl, ds, filepath, t, copy) ==
  IF ~existsSync(fl, ds, filepath)
    THEN [dirs |-> ds, files |-> fl, path |-> <<>>, threw |-> FALSE]
  ELSE
    LET ds2 == ds \cup Ancestors(BACKUP_DIR)
        backupPath == BackupPath(filepath, t)
    IN  IF copy = "fails" \/ Real(filepath) \notin DOMAIN fl
          THEN [dirs |-> ds2, files |-> fl, path |-> <<>>, threw |-> TRUE]
          ELSE [dirs |-> ds2,
                files |-> [f \in DOMAIN fl \cup {backupPath} |->
                             IF f = backupPath THEN fl[Real(filepath)] ELSE fl[f]],
                path |-> backupPath, threw |-> FALSE]

(***************************************************************************)
(* The execute handler.                                                    *)
(***************************************************************************)
\* READ_FILE as it would be with the existence test placed before the
\* readable test
ReadFileExistsFirst(target) ==
  IF ~existsSync(files, dirs, target) THEN
    /\ response' = Reply(FALSE, <<"File not found", target>>)
    /\ fsCalls' = {<<"existsSync", target>>}
  ELSE IF ~isPathReadable(target) THEN
    /\ response' = Reply(FALSE, <<"Access denied: outside allowed read paths", target>>)
    /\ fsCalls' = {<<"existsSync", target>>}
  ELSE
    /\ response' = Reply(TRUE, files[Real(target)])
    /\ fsCalls' = {<<"existsSync", target>>, <<"readFileSync", target>>}

\* case 'READ_FILE'
ReadFile(target) ==
  IF ~isPathReadable(target) THEN
    /\ response' = Reply(FALSE, <<"Access denied: outside allowed read paths", target>>)
    /\ fsCalls' = {}
  ELSE IF ~existsSync(files, dirs, target) THEN
    /\ response' = Reply(FALSE, <<"File not found", target>>)
    /\ fsCalls' = {<<"existsSync", target>>}
  ELSE IF Real(target) \notin DOMAIN files THEN
    \* readFileSync of a directory throws
    /\ response' = Reply(FALSE, <<"Error", "EISDIR">>)
    /\ fsCalls' = {<<"existsSync", target>>, <<"readFileSync", target>>}
  ELSE
    /\ response' = Reply(TRUE, files[Real(target)])
    /\ fsCalls' = {<<"existsSync", target>>, <<"readFileSync", target>>}

\* RUN_SCRIPT as it would be if the blocklist saw the interpreter and the
\* script path only, not the arguments
RunScriptChecksShellOnly(target, content, env) ==
  IF ~isPathReadable(target) THEN
    /\ response' = Reply(FALSE, <<"Access denied: outside allowed read paths", target>>)
    /\ fsCalls' = {}
  ELSE IF ~existsSync(files, dirs, target) THEN
    /\ response' = Reply(FALSE, <<"Script not found", target>>)
    /\ fsCalls' = {<<"existsSync", target>>}
  ELSE IF SomePatternMatches(ScriptShell(target)) THEN
    /\ response' = Reply(FALSE, <<"Blocked: script execution matches a dangerous command pattern">>)
    /\ fsCalls' = {<<"existsSync", target>>}
  ELSE
    /\ response' = SyncReply(env.run)
    /\ fsCalls' = {<<"existsSync", target>>, <<"execSync", ScriptCommand(target, content)>>}

\* case 'RUN_SCRIPT'
RunScript(target, content, env) ==
  IF ~isPathReadable(target) THEN
    /\ response' = Reply(FALSE, <<"Access denied: outside allowed read paths", target>>)
    /\ fsCalls' = {}
  ELSE IF ~existsSync(files, dirs, target) THEN
    /\ response' = Reply(FALSE, <<"Script not found", target>>)
    /\ fsCalls' = {<<"existsSync", target>>}
  ELSE IF isCommandBlocked(ScriptCommand(target, content)) THEN
    /\ response' = Reply(FALSE, <<"Blocked: script execution matches a dangerous command pattern">>)
    /\ fsCalls' = {<<"existsSync", target>>}
  ELSE
    /\ response' = SyncReply(env.run)
    /\ fsCalls' = {<<"existsSync", target>>, <<"execSync", ScriptCommand(target, content)>>}

\* case 'WRITE_FILE'.  env.copy, env.write: what copyFileSync and
\* writeFileSync do: "ok" or "fails".  A file written into ACTIONS_DIR is a
\* marker: it is kept in markers (by Execute), not in files, and its text
\* is kept as the markers keep theirs (a string: "abc" for the content abc).
WriteFile(target, content, env) ==
  IF ~isPathWritable(target) THEN
    /\ response' = Reply(FALSE, <<"Access denied: outside allowed write paths", target>>)
    /\ fsCalls' = {}
    /\ UNCHANGED fsVars
  ELSE
    \E dir \in {dirname(target)} :
    \E dirExists \in {existsSync(files, dirs, dir)} :
    \E backup \in {backupFile(files, IF dirExists THEN dirs ELSE dirs \cup Ancestors(Real(dir)),
                              target, now, env.copy)} :
      LET mkdirThrows == ~dirExists /\ Ancestors(Real(dir)) \cap DOMAIN files # {}
          writeThrows == \/ env.write = "fails"
                         \/ content = Undefined
                         \/ Real(target) \in backup.dirs
                         \/ Real(dir) \notin backup.dirs
      IN  IF mkdirThrows THEN
            /\ response' = Reply(FALSE, <<"Error", "mkdir">>)
            /\ fsCalls' = {<<"existsSync", dir>>, <<"mkdirSync", dir>>}
            /\ UNCHANGED fsVars
          ELSE IF backup.threw THEN
            /\ response' = Reply(FALSE, <<"Error", "copyfile">>)
            /\ fsCalls' = {<<"existsSync", target>>, <<"copyFileSync", target>>}
            /\ files' = backup.files
            /\ dirs' = backup.dirs
          ELSE IF writeThrows THEN
            /\ response' = Reply(FALSE, <<"Error", "write">>)
            /\ fsCalls' = {<<"existsSync", target>>, <<"writeFileSync", target>>}
            /\ files' = backup.files
            /\ dirs' = backup.dirs
          ELSE
            /\ response' = IF backup.path # <<>>
                             THEN Reply(TRUE, <<"File written. Backup saved to", backup.path>>)
                             ELSE Reply(TRUE, <<"File created at", target>>)
            /\ fsCalls' = {<<"existsSync", target>>, <<"writeFileSync", target>>}
            /\ files' = IF MarkerOf(Real(target)) # <<>> THEN backup.files
                        ELSE (Real(target) :> content) @@ backup.files
            /\ dirs' = backup.dirs

\* Resolve relative paths to absolute (only for file-based actions)
Absolute(type, target) ==
  IF type # "RUN_CMD" /\ target # <<>> /\ target[1] # "/"
    THEN join(Cwd, target) ELSE target

\* the request handler threw: Express answers 500 with its own error page
Unhandled(name) ==
  [actionId |-> <<>>, result |-> <<"Unhandled", name>>, status |-> "exception",
   success |-> FALSE]

\* app.post('/api/execute'), for the body req = {type, target, content}; env
\* is what the environment does during the request.  A target that is not a
\* string has no startsWith and no includes: the call throws a TypeError,
\* outside the try block at line 1101, inside it everywhere else.
Execute(req, env) ==
  LET target == IF IsString(req.target) THEN Absolute(req.type, req.target) ELSE req.target
  IN  /\ lastReq' = req
      /\ lastEnv' = [copy |-> env.copy, write |-> env.write]
      /\ nreq' = 1 - nreq
      /\ executing' = NoRequest
      /\ IF ~IsString(target) THEN
           /\ response' =
                IF req.type # "RUN_CMD" /\ target # Undefined
                  THEN Unhandled("TypeError: target.startsWith is not a function")
                ELSE IF req.type \in {"READ_FILE", "RUN_CMD", "RUN_SCRIPT", "WRITE_FILE"}
                  THEN Reply(FALSE, <<"Error", "TypeError">>)
                ELSE Reply(FALSE, <<"Unknown action type", req.type>>)
           /\ fsCalls' = {}
           /\ UNCHANGED <<fsVars, asyncVars>>
         ELSE
           CASE req.type = "READ_FILE" ->
                  /\ ReadFile(target)
                  /\ UNCHANGED <<fsVars, asyncVars>>
             [] req.type = "RUN_CMD" ->
                  /\ RunCmd(target, env)
                  /\ fsCalls' = {}
                  /\ UNCHANGED fsVars
             [] req.type = "RUN_SCRIPT" ->
                  /\ RunScript(target, req.content, env)
                  /\ UNCHANGED <<fsVars, asyncVars>>
             [] req.type = "WRITE_FILE" ->
                  /\ WriteFile(target, req.content, env)
                  /\ markers' = IF response'.success /\ MarkerOf(Real(target)) # <<>>
                                  THEN (MarkerOf(Real(target)) :>
                                          (IF req.content = TextAbc THEN "abc" ELSE "xyz"))
                                       @@ markers
                                  ELSE markers
                  /\ UNCHANGED <<pendingActions, children, liveAtSubmit>>
             [] OTHER ->
                  /\ response' = Reply(FALSE, <<"Unknown action type", req.type>>)
                  /\ fsCalls' = {}
                  /\ UNCHANGED <<fsVars, asyncVars>>
      /\ UNCHANGED <<now, policyVars, connVars>>

(***************************************************************************)
(* The initial state and the requests of the model.                        *)
(***************************************************************************)
\* what the environment does during a request
Env(rnd, spawn, run, copy, write) ==
  [copy |-> copy, rnd |-> rnd, run |-> run, spawn |-> spawn, write |-> write]

RunOk == [message |-> "", ok |-> TRUE, stderr |-> "", stdout |-> "hello\n"]
Calm == Env("k3x9ab", "ok", RunOk, "ok", "ok")

InitFiles ==
  (PathA__B :> TextOld) @@ (PathPasswd :> TextRoot) @@ (PathSecret :> TextRoot)
    @@ (PathScript :> <<"l", "s">>)

InitDirs ==
  {<<"/">>} \cup Ancestors(dirname(PathA__B)) \cup Ancestors(dirname(PathPasswd))
    \cup Ancestors(dirname(PathSecret)) \cup Ancestors(ACTIONS_DIR)

\* The state after construction; leftover: the marker files ACTIONS_DIR
\* holds when the server starts (mkdirSync at line 658 keeps what is there).
Started(leftover) ==
  /\ now = 0
  /\ SAFE_READ_PATHS = DEFAULT_READ_PATHS \o <<OPENCLAW_DIR>>
  /\ SAFE_WRITE_PATHS = DEFAULT_WRITE_PATHS \o <<Cwd, OPENCLAW_DIR>>
  /\ files = InitFiles
  /\ dirs = InitDirs
  /\ fsCalls = {}
  /\ pendingActions = <<>>
  /\ children = <<>>
  /\ liveAtSubmit = <<>>
  /\ markers = leftover
  /\ clientConnections = {}
  /\ heartbeats = {}
  /\ broken = {}
  /\ received = [c \in Conns |-> EmptyBag]
  /\ beats = [c \in Conns |-> 0]
  /\ nconn = 0
  /\ nreq = 0
  /\ lastReq = NoRequest
  /\ lastEnv = [copy |-> "ok", write |-> "ok"]
  /\ executing = NoRequest
  /\ lastUpdates = Updates(FALSE, <<>>, FALSE, <<>>)
  /\ configResponse = NoResponse
  /\ response = NoResponse

\* the server starts with an empty ACTIONS_DIR
Init == Started(<<>>)

Request(type, target, content) == [content |-> content, target |-> target, type |-> type]

\* what the environment may do during a RUN_CMD request: nothing unusual,
\* or one of the outcomes of execSync, or one of the ids and outcomes of exec
CmdEnvs ==
  {Env("k3x9ab", "ok", run, "ok", "ok") : run \in SyncRuns}
    \cup {Env(rnd, spawn, RunOk, "ok", "ok") : rnd \in {"0q7zzt", "k3x9ab"}, spawn \in {"ok", "throws"}}

\* a RUN_CMD request.  The environment varies in what the request's path
\* through the handler consults: nothing for a blocked command, the outcome
\* of execSync on the fast path, the id and the outcome of exec on the
\* async path.
ExecRunCmd ==
  \E target \in Commands, env \in CmdEnvs :
    /\ Len(children) < MaxCmdSubmits \/ isCommandBlocked(target) \/ ~isAsyncCommand(target)
    /\ isCommandBlocked(target) => env = Calm
    /\ (~isCommandBlocked(target) /\ ~isAsyncCommand(target)) =>
         (env.rnd = Calm.rnd /\ env.spawn = "ok")
    /\ (~isCommandBlocked(target) /\ isAsyncCommand(target)) => env.run = RunOk
    /\ Execute(Request("RUN_CMD", target, Undefined), env)

\* a RUN_CMD request that takes the asynchronous path
ExecAsync ==
  /\ Len(children) < MaxSubmits
  /\ Execute(Request("RUN_CMD", CmdAgent, Undefined), Calm)

\* a READ_FILE request
ExecReadFile ==
  \E target \in {PathA__B, PathAB, PathPasswd, PathSecret, PathNoFile, PathTmpNone, PathNotes,
                  PathTraversal} :
    Execute(Request("READ_FILE", target, Undefined), Calm)

\* a WRITE_FILE request
ExecWriteFile ==
  \E target \in {PathA__B, PathAB, PathDenied}, content \in {TextAbc, TextXyz},
     copy \in {"ok", "fails"}, write \in {"ok", "fails"} :
    Execute(Request("WRITE_FILE", target, content), Env("k3x9ab", "ok", RunOk, copy, write))

\* a RUN_SCRIPT request
ExecRunScript ==
  \E target \in {PathScript, PathSecret}, content \in {Undefined, ArgsRmRf},
     run \in {r \in SyncRuns : r.stdout # ""} :
    Execute(Request("RUN_SCRIPT", target, content), Env("k3x9ab", "ok", run, "ok", "ok"))

\* a request whose target is missing or is not a string
ExecMalformed ==
  \E type \in {"READ_FILE", "RUN_CMD"}, target \in {Undefined, NumberTarget} :
    Execute(Request(type, target, Undefined), Calm)

\* a request of a type the handler does not know
ExecUnknown == Execute(Request("DELETE_FILE", PathA__B, Undefined), Calm)

\* the ids that have both a .txt and a .err marker
BothMarkers == {a \in {ActionIdOf(f) : f \in DOMAIN markers} :
                  <<a, "txt">> \in DOMAIN markers /\ <<a, "err">> \in DOMAIN markers}

ChildExits ==
  \E i \in 1..MaxSubmits, error \in {NoError, ExitNonZero, SpawnError} :
    ChildExit(i, error, IF error = SpawnError THEN "" ELSE "out")
ChildExitsAny ==
  \E i \in 1..MaxSubmits, error \in ExecErrors, out \in {"", "out"} : ChildExit(i, error, out)
MarkerOpened == \E i \in 1..MaxSubmits, h \in {"cb", "eh"} : WriteFileOpen(i, h)
MarkerWritten == \E i \in 1..MaxSubmits, h \in {"cb", "eh"} : WriteFileDone(i, h)
Poll == \E first \in [BothMarkers -> Exts] : pollCompletedActions(first, {})
Connect == EventsHandler({})
Beat == \E c \in Conns : Heartbeat(c)
Disconnect == \E c \in Conns : OnClose(c)
Break == \E c \in Conns : SocketBreaks(c)

\* The asynchronous actions and their notification
Next ==
  \/ ExecAsync
  \/ ChildExits
  \/ MarkerOpened
  \/ MarkerWritten
  \/ Poll
  \/ \E first \in [BothMarkers -> Exts], unreadable \in (SUBSET DOMAIN markers) \ {{}} :
       pollCompletedActions(first, unreadable)
  \/ Connect
  \/ Disconnect
  \/ Tick

Spec == Init /\ [][Next]_vars

\* The dispatch of RUN_CMD requests
NextCmd ==
  \/ ExecRunCmd
  \/ ChildExitsAny
  \/ MarkerOpened
  \/ MarkerWritten
  \/ Tick

SpecCmd == Init /\ [][NextCmd]_vars

\* The file-based actions
NextFiles ==
  \/ ExecReadFile
  \/ ExecWriteFile
  \/ ExecRunScript
  \/ ExecUnknown
  \/ ExecMalformed
  \/ Tick

SpecFiles == Init /\ [][NextFiles]_vars

\* a prefix list a config update may carry
RootOnly == <<<<"/", "r", "o", "o", "t", "/">>>>

\* a request to /api/config: one that carries /root/ as either list, or one
\* that carries [], null or '' as one list
Config ==
  \/ \E has_read \in BOOLEAN, has_write \in BOOLEAN, write \in {"ok", "fails"} :
       PostConfig(Updates(has_read, IF has_read THEN RootOnly ELSE <<>>,
                          has_write, IF has_write THEN RootOnly ELSE <<>>), write)
  \/ \E value \in {<<>>} \cup Falsy :
       \/ PostConfig(Updates(TRUE, value, FALSE, <<>>), "ok")
       \/ PostConfig(Updates(FALSE, <<>>, TRUE, value), "ok")

\* a READ_FILE request under the live lists
ConfigRead ==
  \E target \in {PathA__B, PathSecret} : Execute(Request("READ_FILE", target, Undefined), Calm)

\* a WRITE_FILE request under the live lists
ConfigWrite ==
  \E target \in {PathA__B, PathDenied} : Execute(Request("WRITE_FILE", target, TextAbc), Calm)

\* Config updates and the path checks
NextConfig ==
  \/ Config
  \/ ConfigRead
  \/ ConfigWrite
  \/ Tick

SpecConfig == Init /\ [][NextConfig]_vars

\* the handler of req reaches its execSync call
CallsExecSync(req) ==
  \/ /\ req.type = "RUN_CMD"
     /\ ~isCommandBlocked(req.target)
     /\ ~isAsyncCommand(req.target)
  \/ /\ req.type = "RUN_SCRIPT"
     /\ isPathReadable(req.target)
     /\ existsSync(files, dirs, req.target)
     /\ ~isCommandBlocked(ScriptCommand(req.target, req.content))

\* The handler of a synchronous RUN_CMD or RUN_SCRIPT calls execSync: the
\* one thread that runs every handler, timer and callback of the gateway
\* waits inside the call until the child is done.
SyncBegin ==
  \E req \in {Request("RUN_CMD", CmdEcho, Undefined), Request("RUN_SCRIPT", PathScript, Undefined)} :
    /\ executing = NoRequest
    /\ CallsExecSync(req)
    /\ executing' = req
    /\ UNCHANGED <<now, policyVars, fsVars, asyncVars, connVars, nreq, lastReq, lastEnv,
                   response, fsCalls>>

\* execSync returns or throws, and the handler answers
SyncEnd ==
  \E run \in {r \in SyncRuns : r.stdout # "" \/ r.stderr # "" \/ ~r.ok} :
    /\ executing # NoRequest
    /\ Execute(executing, Env("k3x9ab", "ok", run, "ok", "ok"))

\* the thread is free to run a handler, a timer or a callback
Idle == executing = NoRequest

LoopSubmit == Idle /\ Len(children) < MaxLoopSubmits /\ Execute(Request("RUN_CMD", CmdAgent, Undefined), Calm)
LoopChildExits ==
  \E error \in ExecErrors :
    Idle /\ ChildExit(1, error, IF error = SpawnError THEN "" ELSE "out")
LoopPoll == Idle /\ Poll

\* The event loop with synchronous commands, all child outcomes and failing
\* sockets.  The writeFile calls in flight (which run on the thread pool) go
\* on while the thread waits in execSync.
NextLoop ==
  \/ SyncBegin
  \/ SyncEnd
  \/ LoopSubmit
  \/ LoopChildExits
  \/ MarkerOpened
  \/ MarkerWritten
  \/ LoopPoll
  \/ Idle /\ Connect
  \/ Idle /\ Disconnect
  \/ Idle /\ Break

SpecLoop == Init /\ [][NextLoop]_vars

\* The classification of RUN_CMD requests: each command of
\* ClassifiedCommands, and what becomes of the child it starts
NextClassify ==
  \/ \E target \in ClassifiedCommands :
       /\ Len(children) < MaxCmdSubmits \/ ~isAsyncCommand(target)
       /\ Execute(Request("RUN_CMD", target, Undefined), Calm)
  \/ ChildExits
  \/ MarkerOpened
  \/ MarkerWritten
  \/ Tick

SpecClassify == Init /\ [][NextClassify]_vars

\* The marker of an action of an earlier run of the server (its id carries an
\* earlier Date.now()): the file is still in ACTIONS_DIR, the registration
\* died with the process that made it.
OrphanId == generateActionId(-1, "k3x9ab")
OrphanMarker == getActionOutputPath(OrphanId)

InitRestart == Started(OrphanMarker :> "old output")

\* The hub after a restart: one new action, heartbeats, failing sockets, and
\* a catch-up whose readFileSync of the old marker may fail.
NextRestart ==
  \/ LoopSubmit
  \/ ChildExits
  \/ MarkerOpened
  \/ MarkerWritten
  \/ Poll
  \/ \E unreadable \in SUBSET {OrphanMarker} : EventsHandler(unreadable)
  \/ Beat
  \/ Disconnect
  \/ Break

SpecRestart == InitRestart /\ [][NextRestart]_vars

\* The hub and WRITE_FILE requests that name a file of ACTIONS_DIR which does
\* not exist (so that no backup is taken): the file <ACTIONS_DIR>/x.txt.
NextForge ==
  \/ LoopSubmit
  \/ ChildExits
  \/ MarkerOpened
  \/ MarkerWritten
  \/ Poll
  \/ Connect
  \/ Disconnect
  \/ \E target \in {ACTIONS_DIR \o <<"/", "x", ".", "t", "x", "t">>} :
       /\ MarkerOf(target) \notin DOMAIN markers
       /\ Execute(Request("WRITE_FILE", target, TextAbc), Calm)

SpecForge == Init /\ [][NextForge]_vars

\* The hub after a restart with timers that keep firing: setInterval runs
\* the heartbeat of every connection again and again for as long as it is
\* set.
SpecBeat ==
  InitRestart /\ [][NextRestart]_vars /\ \A c \in Conns : WF_vars(Heartbeat(c))

(***************************************************************************)
(* Properties of the notification hub, checked under Spec.                 *)
(***************************************************************************)
\* the number of action-complete events carrying id a written to connection c
Delivered(c, a) ==
  BagCardinality([e \in {x \in DOMAIN received[c] : x.actionId = a} |-> received[c][e]])

\* the id of children[i] was generated once
UniqueId(i) == \A j \in DOMAIN children : children[j].id = children[i].id => j = i

\* every writeFile of children[i] has written its text to the marker
WritersDone(i) ==
  /\ children[i].state = "exited"
  /\ children[i].cb = "done"
  /\ children[i].eh \in {"none", "done"}

\* the step handles a request to /api/execute
RequestStep == nreq' # nreq

\* C1: a connection is written at most one action-complete event per action
\* id.  Stated for the ids that were generated once, so that a violation
\* does not rest on two actions sharing an id.
C1_AtMostOncePerConnection ==
  \A c \in Conns : \A i \in DOMAIN children : UniqueId(i) => Delivered(c, children[i].id) <= 1

\* C3: an action submitted while exactly one client was connected, whose
\* child has exited and whose marker has been written and consumed, has been
\* delivered exactly once to that client if the client is still connected.
\* After such a state no marker of the action is written again, so a client
\* without the event never receives it.
C3_SubmitterReceivesExactlyOne ==
  \A i \in DOMAIN children : \A c \in Conns :
    ( /\ liveAtSubmit[i] = {c}
      /\ c \in clientConnections
      /\ UniqueId(i)
      /\ WritersDone(i)
      /\ \A f \in DOMAIN markers : ActionIdOf(f) # children[i].id )
    => Delivered(c, children[i].id) = 1

C5_LiveClientsReceive ==
  [][\A f \in DOMAIN markers :
       f \notin DOMAIN markers' =>
         \A c \in clientConnections \cap clientConnections' :
           \E e \in DOMAIN received'[c] : e.actionId = ActionIdOf(f)]_vars

\* C6: a step that writes an action-complete event for an id to a connection
\* leaves that id out of pendingActions.
C6_DeliveredIsUnregistered ==
  [][\A c \in Conns : \A e \in DOMAIN received'[c] :
       CopiesIn(e, received'[c]) > CopiesIn(e, received[c]) =>
         e.actionId \notin DOMAIN pendingActions']_vars

(***************************************************************************)
(* Properties of RUN_CMD, checked under SpecCmd.                           *)
(***************************************************************************)
\* C2: a RUN_CMD request whose command is blocked is answered success:false
\* with the 'Blocked' result and no action id, and the step registers no
\* action, starts no child and writes no marker.
C2_BlockedNeverRuns ==
  [][(RequestStep /\ lastReq'.type = "RUN_CMD" /\ isCommandBlocked(lastReq'.target)) =>
       /\ response' = Reply(FALSE, <<"Blocked", lastReq'.target>>)
       /\ UNCHANGED <<pendingActions, children, markers>>]_vars

\* C2 witness: a blocked command that looks long-running has been refused
\* while an earlier action is registered.
C2_BlockedRefused ==
  /\ lastReq = Request("RUN_CMD", CmdAgentReboot, Undefined)
  /\ response = Reply(FALSE, <<"Blocked", CmdAgentReboot>>)
  /\ Len(children) = 1
  /\ DOMAIN pendingActions = {children[1].id}

(***************************************************************************)
(* Properties of the file actions, checked under SpecFiles.                *)
(***************************************************************************)
\* the step handles a request of the given type, whose target is tgt after
\* the resolution of a relative path
FileRequestStep(type, tgt) ==
  /\ RequestStep
  /\ lastReq'.type = type
  /\ tgt = Absolute(type, lastReq'.target)

\* a file under BACKUP_DIR
IsBackup(f) == StartsWith(f, BACKUP_DIR \o <<"/">>)

\* C7: a WRITE_FILE on a writable target that exists: if the step changes
\* the target, or answers success, the backup file holds the target's
\* pre-write content; after a success the target holds the request's content.
C7_BackupBeforeOverwrite ==
  [][\A tgt \in {Absolute("WRITE_FILE", lastReq'.target)} :
       (FileRequestStep("WRITE_FILE", tgt) /\ isPathWritable(tgt) /\ tgt \in DOMAIN files) =>
         /\ (files'[tgt] # files[tgt] \/ response'.success) =>
              /\ BackupPath(tgt, now) \in DOMAIN files'
              /\ files'[BackupPath(tgt, now)] = files[tgt]
              /\ response'.result = <<"File written. Backup saved to", BackupPath(tgt, now)>>
         /\ response'.success => files'[tgt] = lastReq'.content]_vars

\* C7 witness: an existing target has been overwritten, its backup holds the
\* old content.
C7_Overwritten ==
  /\ lastReq = Request("WRITE_FILE", PathA__B, TextAbc)
  /\ response = Reply(TRUE, <<"File written. Backup saved to", BackupPath(PathA__B, now)>>)
  /\ files[BackupPath(PathA__B, now)] = TextOld
  /\ files[PathA__B] = TextAbc

\* C8: a WRITE_FILE on a writable target that exists, during which
\* copyFileSync fails, leaves every file as it was and answers success:false.
C8_FailedBackupAbortsWrite ==
  [][\A tgt \in {Absolute("WRITE_FILE", lastReq'.target)} :
       ( /\ FileRequestStep("WRITE_FILE", tgt)
         /\ isPathWritable(tgt)
         /\ tgt \in DOMAIN files
         /\ lastEnv'.copy = "fails" ) =>
         /\ files' = files
         /\ ~response'.success]_vars

\* C8 witness: the copy failed during a write of new content to an existing
\* target, which still holds its old content.
C8_WriteAborted ==
  /\ lastReq = Request("WRITE_FILE", PathA__B, TextXyz)
  /\ lastEnv.copy = "fails"
  /\ response = Reply(FALSE, <<"Error", "copyfile">>)
  /\ files[PathA__B] = TextOld

\* C9: no step changes or removes a backup file that exists: every backup
\* gets a location of its own.
C9_BackupsNeverOverwritten ==
  [][\A b \in DOMAIN files : IsBackup(b) => b \in DOMAIN files' /\ files'[b] = files[b]]_vars

\* C10: a READ_FILE whose target is a path (a string) that starts with none
\* of the readable prefixes is answered with the access-denied failure, which
\* depends on the target only, and the step makes no file system call.
C10_DeniedReadTouchesNothing ==
  [][\A tgt \in {Absolute("READ_FILE", lastReq'.target)} :
       (FileRequestStep("READ_FILE", tgt) /\ IsString(lastReq'.target) /\ ~isPathReadable(tgt)) =>
         /\ response' = Reply(FALSE, <<"Access denied: outside allowed read paths", tgt>>)
         /\ fsCalls' = {}]_vars

\* C10 witness: the read of a file that exists outside the readable
\* prefixes has been denied.
C10_ExistingFileDenied ==
  /\ lastReq = Request("READ_FILE", PathSecret, Undefined)
  /\ PathSecret \in DOMAIN files
  /\ response = Reply(FALSE, <<"Access denied: outside allowed read paths", PathSecret>>)
  /\ fsCalls = {}

\* the target of the last request after the resolution of a relative path
LastTarget ==
  IF IsString(lastReq.target) THEN Absolute(lastReq.type, lastReq.target) ELSE <<>>

\* C11: a READ_FILE that has read its target, and a WRITE_FILE that has
\* written it, named a file whose location, once "." and ".." are resolved,
\* starts with one of the readable, respectively writable, prefixes.
C11_NoAccessOutsideConfiguredDirs ==
  /\ (lastReq.type = "READ_FILE" /\ <<"readFileSync", LastTarget>> \in fsCalls)
       => isPathReadable(Real(LastTarget))
  /\ (lastReq.type = "WRITE_FILE" /\ <<"writeFileSync", LastTarget>> \in fsCalls)
       => isPathWritable(Real(LastTarget))

\* C12: no request to /api/execute ends with an exception leaving the
\* handler: every answer is a {success, result} body or the running
\* acknowledgement.
C12_NoExceptionEscapes == response.status \in {"none", "done", "running"}

(***************************************************************************)
(* Further properties of RUN_CMD, checked under SpecCmd.                   *)
(***************************************************************************)
\* C17: a RUN_CMD that carries the shell fork bomb is answered Blocked.
C17_ForkBombBlocked ==
  (lastReq.type = "RUN_CMD" /\ Includes(lastReq.target, CmdForkBomb))
    => response = Reply(FALSE, <<"Blocked", lastReq.target>>)

(***************************************************************************)
(* Properties of the config update, checked under SpecConfig.              *)
(***************************************************************************)
\* the answer is the access-denied failure
IsDenied(r) == ~r.success /\ r.result # <<>> /\ r.result[1] \in
  {"Access denied: outside allowed read paths", "Access denied: outside allowed write paths"}

\* C16: once a config update that carries a list as read_paths (write_paths)
\* has succeeded, the live read (write) list is exactly the list it carried;
\* every READ_FILE and WRITE_FILE is denied iff its target starts with no
\* prefix of the live list; no other step changes the lists.
C16_ConfigSwapsWholeLists ==
  [][/\ (configResponse'.status = "done" /\ configResponse'.success) =>
          /\ (lastUpdates'.has_read /\ lastUpdates'.read_paths \notin Falsy) =>
               SAFE_READ_PATHS' = lastUpdates'.read_paths
          /\ (lastUpdates'.has_write /\ lastUpdates'.write_paths \notin Falsy) =>
               SAFE_WRITE_PATHS' = lastUpdates'.write_paths
     /\ \A tgt \in {Absolute("READ_FILE", lastReq'.target)} :
          /\ FileRequestStep("READ_FILE", tgt) => (IsDenied(response') <=> ~isPathReadable(tgt))
          /\ FileRequestStep("WRITE_FILE", tgt) => (IsDenied(response') <=> ~isPathWritable(tgt))
     /\ RequestStep => UNCHANGED <<SAFE_READ_PATHS, SAFE_WRITE_PATHS>>]_vars

\* C16 witness: after an update that replaced both lists, a write under the
\* old write prefix /tmp/ has been refused and has left the file alone.
C16_NewListsInUse ==
  /\ configResponse.success
  /\ lastUpdates = Updates(TRUE, RootOnly, TRUE, RootOnly)
  /\ lastReq = Request("WRITE_FILE", PathA__B, TextAbc)
  /\ IsDenied(response)
  /\ files[PathA__B] = TextOld

(***************************************************************************)
(* Properties of the event loop, checked under SpecLoop.                   *)
(***************************************************************************)
\* C13: while a synchronous command is inside execSync, the completion
\* poller can take a step.
C13_PollerRunsDuringSyncCommand == executing # NoRequest => ENABLED LoopPoll

\* C15: a poll pass that delivers an action while the socket of a registered
\* connection is failing removes that connection from clientConnections.
C15_FailedWriteRemovesConnection ==
  [][(DOMAIN pendingActions' # DOMAIN pendingActions
        /\ DOMAIN pendingActions' \subseteq DOMAIN pendingActions) =>
       \A c \in broken \cap clientConnections : c \notin clientConnections']_vars

\* C19: for an action whose id was generated once, a .txt marker exists only
\* if the child exited with code 0, a .err marker only if it ended any other
\* way (non-zero exit, signal, output overflow, spawn failure), and every
\* event written for the action has success = TRUE iff the exit code was 0.
C19_SuccessIffExitZero ==
  \A i \in DOMAIN children :
    UniqueId(i) =>
      /\ getActionOutputPath(children[i].id) \in DOMAIN markers =>
           (children[i].state = "exited" /\ children[i].error = NoError)
      /\ getActionErrorPath(children[i].id) \in DOMAIN markers =>
           (children[i].state = "exited" /\ children[i].error # NoError)
      /\ \A c \in Conns : \A e \in DOMAIN received[c] :
           e.actionId = children[i].id =>
             /\ children[i].state = "exited"
             /\ e.success <=> (children[i].error = NoError)

\* C19 witness: a client has been written the failure event of a child that
\* was killed by a signal.
C19_SignalKillDelivered ==
  /\ Len(children) = 1
  /\ children[1].error = KilledBySignal
  /\ \E e \in DOMAIN received[1] : e.actionId = children[1].id /\ ~e.success

C14_RunningAnsweredAtSpawn ==
  [][RequestStep =>
       /\ Len(children') > Len(children) =>
            /\ Len(children') = Len(children) + 1
            /\ response' = Running(children'[Len(children')].id)
            /\ children'[Len(children')].id \in DOMAIN pendingActions'
            /\ children'[Len(children')].state = "running"
       /\ response'.status = "running" => Len(children') = Len(children) + 1]_vars

\* C14 witness: the running acknowledgement has been sent while the child
\* runs and no marker exists.
C14_AcknowledgedWhileRunning ==
  /\ Len(children) = 1
  /\ children[1].state = "running"
  /\ response = Running(children[1].id)
  /\ children[1].id \in DOMAIN pendingActions
  /\ markers = <<>>

\* C18: at most one writeFile writes the marker of an action: the completion
\* callback and the 'error' listener never both complete a write.
C18_OneMarkerWritePerAction ==
  \A i \in DOMAIN children :
    ~(children[i].cb \in {"done", "lost"} /\ children[i].eh \in {"done", "lost"})

C24_ComposedScriptCommandBlocked ==
  [][\A tgt \in {Absolute("RUN_SCRIPT", lastReq'.target)} :
       ( /\ FileRequestStep("RUN_SCRIPT", tgt)
         /\ IsString(lastReq'.target)
         /\ isCommandBlocked(ScriptCommand(tgt, lastReq'.content)) ) =>
         /\ ~response'.success
         /\ \A call \in fsCalls' : call[1] # "execSync"
         /\ UNCHANGED <<files, dirs, pendingActions, children, markers>>]_vars

\* C24 witness: a script in a readable place, whose own command line
\* matches no pattern, has been refused because of its arguments.
C24_ArgumentsRefused ==
  /\ lastReq = Request("RUN_SCRIPT", PathScript, ArgsRmRf)
  /\ existsSync(files, dirs, PathScript)
  /\ ~isCommandBlocked(ScriptCommand(PathScript, Undefined))
  /\ response = Reply(FALSE, <<"Blocked: script execution matches a dangerous command pattern">>)
  /\ fsCalls = {<<"existsSync", PathScript>>}

(***************************************************************************)
(* Properties of the hub after a restart, checked under SpecRestart.       *)
(***************************************************************************)
\* C21: the marker of an id that is not registered (left by an earlier run)
\* is delivered by no poll pass: only a connect step writes its event, and
\* no connection is written that event more than once.
C21_OrphanDeliveredAtMostOnce ==
  [][\A c \in Conns :
       /\ Delivered(c, OrphanId)' <= 1
       /\ nconn' = nconn => Delivered(c, OrphanId)' = Delivered(c, OrphanId)]_vars

\* C21 witness: a poll pass has drained the new action, and has written its
\* event to connection 1, while the old marker was on disk (connection 1
\* could not read it); connection 2, opened after the pass, has received the
\* old marker.
C21_OrphanSkippedByPoll ==
  /\ Len(children) = 1
  /\ WritersDone(1)
  /\ children[1].id \notin DOMAIN pendingActions
  /\ 1 \in clientConnections
  /\ Delivered(1, children[1].id) = 1
  /\ Delivered(1, OrphanId) = 0
  /\ 2 \in clientConnections
  /\ broken = {}
  /\ Delivered(2, children[1].id) = 0
  /\ Delivered(2, OrphanId) = 1

\* C22: the close handler of a connection takes it out of clientConnections
\* and cancels its heartbeat timer; a connection that was accepted and is no
\* longer in clientConnections stays out, has no timer, and is written no
\* further heartbeat and no further action-complete event.
C22_ClosedConnectionIsSilent ==
  [][\A c \in Conns :
       /\ OnClose(c) => (c \notin clientConnections' /\ c \notin heartbeats')
       /\ (c <= nconn /\ c \notin clientConnections) =>
            /\ c \notin clientConnections'
            /\ c \notin heartbeats
            /\ received'[c] = received[c]
            /\ beats'[c] = beats[c]]_vars

\* C22 witness: connection 1 was closed before the action was submitted;
\* the poll pass has written the action's event to connection 2 only, and
\* connection 2 has been written a heartbeat.
C22_ClosedBeforeDelivery ==
  /\ Len(children) = 1
  /\ liveAtSubmit[1] = {2}
  /\ children[1].id \notin DOMAIN pendingActions
  /\ 1 \notin clientConnections \cup heartbeats
  /\ Delivered(2, children[1].id) = 1
  /\ Delivered(1, children[1].id) = 0
  /\ beats[1] = 0
  /\ beats[2] = 1

\* C25: every action-complete event written for an action (whose id was
\* generated once) carries the whole text the completion callback handed to
\* writeFile: no poll pass and no catch-up sends the content of a marker
\* that writeFile has created and not yet written.
C25_EventsCarryCompleteText ==
  \A c \in Conns : \A e \in DOMAIN received[c] : \A i \in DOMAIN children :
    (UniqueId(i) /\ e.actionId = children[i].id) => e.result = CallbackText(children[i])

\* C26: a poll pass that drains an action (takes its id out of
\* pendingActions) writes one event for it, carrying the text of one of its
\* markers, to every registered connection whose socket works, whatever the
\* other sockets do, and leaves no marker of the id on disk.
C26_PollBroadcastsDespiteFailures ==
  [][\A a \in DOMAIN pendingActions \ DOMAIN pendingActions' :
       /\ \A c \in clientConnections \ broken :
            /\ Delivered(c, a)' = Delivered(c, a) + 1
            /\ \E f \in DOMAIN markers :
                 /\ ActionIdOf(f) = a
                 /\ CopiesIn(Event(f, markers[f]), received'[c])
                      = CopiesIn(Event(f, markers[f]), received[c]) + 1
       /\ \A f \in DOMAIN markers' : ActionIdOf(f) # a]_vars

\* C26 witness: the action was submitted with connections 1 and 2 open; the
\* socket of connection 1 fails; the pass has drained the action and has
\* written its event to connection 2.
C26_DeliveredPastFailedSocket ==
  /\ Len(children) = 1
  /\ liveAtSubmit[1] = {1, 2}
  /\ children[1].id \notin DOMAIN pendingActions
  /\ clientConnections = {1, 2}
  /\ broken = {1}
  /\ Delivered(1, children[1].id) = 0
  /\ Delivered(2, children[1].id) = 1
  /\ \A f \in DOMAIN markers : ActionIdOf(f) # children[1].id

(***************************************************************************)
(* Further properties of the hub, checked under Spec.                      *)
(***************************************************************************)
\* C23: the request step that starts a child gives it an id that no earlier
\* child has, that is not registered in pendingActions and that no marker
\* on disk carries.
C23_FreshActionId ==
  [][(RequestStep /\ Len(children') = Len(children) + 1) =>
       \A id \in {children'[Len(children')].id} :
         /\ \A j \in DOMAIN children : children[j].id # id
         /\ id \notin DOMAIN pendingActions
         /\ \A f \in DOMAIN markers : ActionIdOf(f) # id]_vars

\* C27: a step of the poller (any step that is not a connect) removes a
\* marker, and writes an event for an id, only if the id is in
\* pendingActions before the step; after it, no marker of an id it has
\* delivered or unregistered is on disk, neither <id>.txt nor <id>.err.
C27_PollRemovesBothMarkers ==
  [][nconn' = nconn =>
       /\ \A f \in DOMAIN markers \ DOMAIN markers' : ActionIdOf(f) \in DOMAIN pendingActions
       /\ \A c \in Conns : \A e \in DOMAIN received'[c] :
            CopiesIn(e, received'[c]) > CopiesIn(e, received[c]) =>
              /\ e.actionId \in DOMAIN pendingActions
              /\ getActionOutputPath(e.actionId) \notin DOMAIN markers'
              /\ getActionErrorPath(e.actionId) \notin DOMAIN markers'
       /\ \A a \in DOMAIN pendingActions \ DOMAIN pendingActions' :
            /\ getActionOutputPath(a) \notin DOMAIN markers'
            /\ getActionErrorPath(a) \notin DOMAIN markers']_vars

\* C27 witness: two children wrote <id>.txt and <id>.err of one id in full;
\* no client ever connected, so only a poll pass can have removed a marker,
\* and one pass has removed both (a marker written after the pass would have
\* stayed on disk).
C27_BothMarkersRemoved ==
  /\ Len(children) = 2
  /\ children[1].id = children[2].id
  /\ WritersDone(1)
  /\ WritersDone(2)
  /\ children[1].error = NoError
  /\ children[2].error = ExitNonZero
  /\ nconn = 0
  /\ markers = <<>>
  /\ pendingActions = <<>>

\* C28: for an action whose id was generated once: a poll pass that drains
\* it while no client is connected leaves none of its markers on disk; and
\* once the action is unregistered without any connection having been
\* written its event (only such a pass does that), no later step writes an
\* event of the action to any connection.
C28_DrainedWithoutClientsIsLost ==
  [][\A i \in DOMAIN children : \A a \in {children[i].id} :
       UniqueId(i) =>
         /\ (clientConnections = {} /\ a \in DOMAIN pendingActions
                /\ a \notin DOMAIN pendingActions') =>
              \A f \in DOMAIN markers' : ActionIdOf(f) # a
         /\ (a \notin DOMAIN pendingActions /\ \A c \in Conns : Delivered(c, a) = 0) =>
              \A c \in Conns : Delivered(c, a)' = 0]_vars

(***************************************************************************)
(* The classification of RUN_CMD, checked under SpecClassify.              *)
(***************************************************************************)
\* C29: a RUN_CMD that is not blocked starts a child, registers its id and
\* is answered with the running acknowledgement iff its text contains
\* 'openclaw agent', 'openclaw --message' or 'openclaw --to' or has more than
\* 200 characters; otherwise it is answered at once and the step changes
\* neither pendingActions nor the children nor the markers.
C29_AsyncIffLongRunning ==
  [][\A t \in {lastReq'.target} :
       (RequestStep /\ lastReq'.type = "RUN_CMD" /\ IsString(t) /\ ~isCommandBlocked(t)) =>
         IF \/ Includes(t, <<"o", "p", "e", "n", "c", "l", "a", "w", " ", "a", "g", "e", "n", "t">>)
            \/ Includes(t, <<"o", "p", "e", "n", "c", "l", "a", "w", " ", "-", "-", "m", "e", "s", "s", "a", "g", "e">>)
            \/ Includes(t, <<"o", "p", "e", "n", "c", "l", "a", "w", " ", "-", "-", "t", "o">>)
            \/ Len(t) > 200
           THEN /\ response'.status = "running"
                /\ response'.actionId \in DOMAIN pendingActions'
                /\ Len(children') = Len(children) + 1
           ELSE /\ response'.status = "done"
                /\ UNCHANGED <<pendingActions, children, markers>>]_vars

\* C29 witness: a command of exactly 200 characters has been run on the
\* synchronous path while nothing is registered.
C29_Exactly200RunsSync ==
  /\ lastReq.type = "RUN_CMD"
  /\ Len(lastReq.target) = 200
  /\ response = SyncReply(RunOk)
  /\ pendingActions = <<>>
  /\ children = <<>>
  /\ markers = <<>>

C32_CloseTouchesOnlyConnection ==
  /\ [][\A c \in clientConnections \ clientConnections' :
          /\ clientConnections' = clientConnections \ {c}
          /\ heartbeats' = heartbeats \ {c}
          /\ UNCHANGED <<pendingActions, markers, children, received, beats, fsVars>>]_vars
  /\ [](\A i \in DOMAIN children :
          /\ children[i].state = "running" => ENABLED ChildExit(i, NoError, "")
          /\ \A h \in {"cb", "eh"} :
               /\ children[i][h] = "queued" => ENABLED WriteFileOpen(i, h)
               /\ children[i][h] = "open" => ENABLED WriteFileDone(i, h))

\* C32 witness: the child was submitted while connection 1 was the only one
\* open; the connection has closed, and the child has exited and written
\* its marker, which is on disk with its registration.
C32_MarkerWrittenAfterClose ==
  /\ Len(children) = 1
  /\ liveAtSubmit[1] = {1}
  /\ nconn = 1
  /\ clientConnections = {}
  /\ heartbeats = {}
  /\ WritersDone(1)
  /\ CallbackPath(children[1]) \in DOMAIN markers
  /\ children[1].id \in DOMAIN pendingActions

\* C37: the step that accepts a connection writes nothing to any other
\* connection: what the others have received is unchanged, whatever markers
\* the catch-up finds.
C37_CatchUpWritesToNewClientOnly ==
  [][nconn' # nconn =>
       \A c \in Conns \ {nconn'} : received'[c] = received[c]]_vars

\* C37 witness: connection 1 is open and its socket works; connection 2 has
\* been written by its catch-up an outcome that connection 1 was not.
C37_CaughtUpBesideOpenClient ==
  /\ nconn = 2
  /\ 1 \in clientConnections \ broken
  /\ 2 \in clientConnections
  /\ \E e \in DOMAIN received[2] : e \notin DOMAIN received[1]

(***************************************************************************)
(* The path checks under changing lists, checked under SpecConfig.         *)
(***************************************************************************)
\* C33: a WRITE_FILE whose target starts with no entry of the writable list
\* in force when the request arrives is answered with the access-denied
\* failure, makes no file-system call and leaves every file and directory
\* as it was.
C33_DeniedWriteChangesNothing ==
  [][\A tgt \in {Absolute("WRITE_FILE", lastReq'.target)} :
       ( /\ FileRequestStep("WRITE_FILE", tgt)
         /\ ~\E n \in 1..Len(SAFE_WRITE_PATHS) : StartsWith(tgt, SAFE_WRITE_PATHS[n]) ) =>
         /\ response' = Reply(FALSE, <<"Access denied: outside allowed write paths", tgt>>)
         /\ fsCalls' = {}
         /\ UNCHANGED fsVars]_vars

\* C33 witness: after a config update made /root/ the only writable prefix,
\* a WRITE_FILE to /tmp/a__b has been refused and the file has its old text.
C33_WriteRefusedUnderNewList ==
  /\ SAFE_WRITE_PATHS = RootOnly
  /\ lastReq = Request("WRITE_FILE", PathA__B, TextAbc)
  /\ response = Reply(FALSE, <<"Access denied: outside allowed write paths", PathA__B>>)
  /\ fsCalls = {}
  /\ files[PathA__B] = TextOld

\* C38: a config update whose save fails is answered success:false and
\* leaves the live lists as they were; and no step that answers a config
\* update with a failure changes the live lists.
C38_FailedSaveKeepsLists ==
  [][/\ PostConfig(lastUpdates', "fails") =>
          /\ configResponse'.status = "done"
          /\ ~configResponse'.success
          /\ UNCHANGED <<SAFE_READ_PATHS, SAFE_WRITE_PATHS>>
     /\ (configResponse'.status = "done" /\ ~configResponse'.success) =>
          UNCHANGED <<SAFE_READ_PATHS, SAFE_WRITE_PATHS>>]_vars

\* C38 witness: an update that carried both lists failed to save; the
\* lists in force are those the server started with.
C38_SaveFailedWithLists ==
  /\ lastUpdates = Updates(TRUE, RootOnly, TRUE, RootOnly)
  /\ configResponse = Reply(FALSE, <<"Failed to save config">>)
  /\ SAFE_READ_PATHS # RootOnly
  /\ SAFE_WRITE_PATHS # RootOnly
  /\ isPathWritable(PathA__B)

\* C39: after a config update that succeeded, the live read (write) list
\* equals the read_paths (write_paths) value the update carried and saved,
\* whatever that value is ([], null and '' included).
C39_LiveListEqualsSavedValue ==
  (configResponse.status = "done" /\ configResponse.success) =>
    /\ lastUpdates.has_read => SAFE_READ_PATHS = lastUpdates.read_paths
    /\ lastUpdates.has_write => SAFE_WRITE_PATHS = lastUpdates.write_paths

(***************************************************************************)
(* Registration and markers, checked under Spec.                           *)
(***************************************************************************)
\* C36: for an action whose id was generated once: while a marker of the
\* action is on disk and no connection has been written an event of the
\* action, its id is in pendingActions (so that the next poll pass drains
\* the marker instead of skipping it as unknown).
C36_UndeliveredMarkerIsRegistered ==
  \A i \in DOMAIN children : \A a \in {children[i].id} :
    ( /\ UniqueId(i)
      /\ \E f \in DOMAIN markers : ActionIdOf(f) = a
      /\ \A c \in Conns : Delivered(c, a) = 0 ) =>
      a \in DOMAIN pendingActions

\* C35: a poll pass in which readFileSync fails on some markers leaves each
\* of them on disk, keeps the registration of its id and writes no event of
\* its id to any connection; and it drains every other marker of a
\* registered id (the marker and the registration are gone after the pass).
C35_UnreadableMarkerSkipped ==
  [][\A unreadable \in SUBSET DOMAIN markers : \A first \in [BothMarkers -> Exts] :
       pollCompletedActions(first, unreadable) =>
         /\ \A f \in unreadable :
              /\ f \in DOMAIN markers'
              /\ ActionIdOf(f) \in DOMAIN pendingActions =>
                   ActionIdOf(f) \in DOMAIN pendingActions'
              /\ \A c \in Conns : Delivered(c, ActionIdOf(f))' = Delivered(c, ActionIdOf(f))
         /\ \A g \in DOMAIN markers \ unreadable :
              ActionIdOf(g) \in DOMAIN pendingActions =>
                /\ g \notin DOMAIN markers'
                /\ ActionIdOf(g) \notin DOMAIN pendingActions']_vars

(***************************************************************************)
(* The marker directory and WRITE_FILE, checked under SpecForge.           *)
(***************************************************************************)
\* C34: every action-complete event a connection has been written carries
\* the id of a child that an async submission started, and a WRITE_FILE
\* request leaves the markers as they were.
C34_EventsComeFromSubmissions ==
  [][/\ \A c \in Conns : \A e \in DOMAIN received'[c] :
          \E j \in DOMAIN children' : children'[j].id = e.actionId
     /\ (RequestStep /\ lastReq'.type = "WRITE_FILE") => markers' = markers]_vars
====
